---- MODULE Spec2Model ----
(***************************************************************************)
(* Verification model of the search-everywhere extension: the aggregation  *)
(* and ranking engine (SearchService), its providers, the text matcher and *)
(* the debouncer.                                                          *)
(*                                                                         *)
(* Conventions                                                             *)
(*  - Strings of the program are sequences of one-character strings, so    *)
(*    that label normalisation and substring matching are computed.        *)
(*  - Scores and weights are exact rationals <<n, d>> with d > 0.          *)
(*  - Time is counted in minutes; Date.now() is the variable of that       *)
(*    component's clock and never decreases.                               *)
(*  - Every component has its own variables and its own specification;     *)
(*    a specification leaves the other components' variables unchanged.    *)
(***************************************************************************)
EXTENDS Integers, Sequences, FiniteSets, Bags, TLC

\* Absent values: a missing map entry, a missing `score` property.
NoTime == 0 - 1
NoScore == <<0, 0>>

(***************************************************************************)
(* Exact rational arithmetic (JavaScript numbers, without rounding).       *)
(***************************************************************************)
Abs(x) == IF x < 0 THEN -x ELSE x

RECURSIVE GCD(_, _)
GCD(a, b) == IF b = 0 THEN a ELSE GCD(b, a % b)

Rat(n, d) ==
    LET g == GCD(Abs(n), d)
    IN  IF n = 0 THEN <<0, 1>> ELSE <<n \div g, d \div g>>

RAdd(a, b) == Rat(a[1] * b[2] + b[1] * a[2], a[2] * b[2])
RSub(a, b) == Rat(a[1] * b[2] - b[1] * a[2], a[2] * b[2])
RMul(a, b) == Rat(a[1] * b[1], a[2] * b[2])
RLess(a, b) == a[1] * b[2] < b[1] * a[2]
RLeq(a, b) == a[1] * b[2] <= b[1] * a[2]
RAbs(a) == <<Abs(a[1]), a[2]>>
RMax(a, b) == IF RLess(a, b) THEN b ELSE a

Zero == <<0, 1>>
One == <<1, 1>>

(***************************************************************************)
(* SearchItemType (core/types).                                            *)
(***************************************************************************)
TFile == "file"
TCommand == "command"
TSymbol == "symbol"
TClass == "class"
TTextMatch == "text-match"
SearchItemType == {TFile, TCommand, TSymbol, TClass, TTextMatch}

(***************************************************************************)
(* Recency boost: SearchService.boostRecentlyModifiedItems.                *)
(***************************************************************************)
OneHour == 60

\* recencyScore = Math.max(0, 1 - (age / oneHour))
RecencyScore(age) == RMax(Zero, RSub(One, Rat(age, OneHour)))

\* A boost without the Math.max(0, ...) clamp.
BoostNoClamp(type, timestamp, now, weight) ==
    LET age == now - timestamp
    IN  IF timestamp = NoTime \/ timestamp = 0 THEN NoScore
        ELSE IF type = TFile
             THEN RAdd(One, RMul(RSub(One, Rat(age, OneHour)), weight))
        ELSE IF type = TSymbol
             THEN RAdd(One, RMul(RMul(RSub(One, Rat(age, OneHour)), weight), <<1, 2>>))
        ELSE NoScore

\* A boost that applies the halved symbol weight to files as well.
BoostFileHalved(type, timestamp, now, weight) ==
    LET age == now - timestamp
    IN  IF timestamp = NoTime \/ timestamp = 0 THEN NoScore
        ELSE IF type = TFile \/ type = TSymbol
             THEN RAdd(One, RMul(RMul(RecencyScore(age), weight), <<1, 2>>))
        ELSE NoScore

\* A boost that treats every item type as File items are treated.
BoostAnyType(type, timestamp, now, weight) ==
    LET age == now - timestamp
    IN  IF timestamp = NoTime \/ timestamp = 0 THEN NoScore
        ELSE RAdd(One, RMul(RecencyScore(age), weight))

\* The boost of one item: the multiplier applied to its score, or NoScore when
\* the item is left alone.  timestamp is the recency map's entry for the
\* item's uri (NoTime when absent); `if (timestamp)` is false for 0 as well.
\* Only File and Symbol items have a branch.
Boost(type, timestamp, now, weight) ==
    LET age == now - timestamp
    IN  IF timestamp = NoTime \/ timestamp = 0 THEN NoScore
        ELSE IF type = TFile
             THEN RAdd(One, RMul(RecencyScore(age), weight))
        ELSE IF type = TSymbol
             THEN RAdd(One, RMul(RMul(RecencyScore(age), weight), <<1, 2>>))
        ELSE NoScore

\* item.score *= boost, only `if ('score' in item && typeof item.score === 'number')`
BoostedScore(score, boost) ==
    IF score = NoScore \/ boost = NoScore THEN score ELSE RMul(score, boost)

(***************************************************************************)
(* The boost step on one item, at growing ages.                            *)
(*   bType, bScore   the item's type and its score before the step         *)
(*   bTimestamp      recentlyModifiedFiles.get(uri), NoTime when absent      *)
(*   bWeight         config.activity.weight                                *)
(*   bNow            Date.now()                                            *)
(*   bBoost, bOut    the multiplier used and the score after the step      *)
(*   bApplied        the step has run                                      *)
(*   bEnabled        config.activity.enabled                               *)
(*   bOthers         the number of other uris in recentlyModifiedFiles     *)
(*   bSearched       a search has got past the guard of the step           *)
(***************************************************************************)
VARIABLES bType, bScore, bTimestamp, bWeight, bNow, bBoost, bOut, bApplied,
          bEnabled, bOthers, bSearched

boostVars ==
    <<bType, bScore, bTimestamp, bWeight, bNow, bBoost, bOut, bApplied,
      bEnabled, bOthers, bSearched>>

\* this.recentlyModifiedFiles.size
RecentSize == bOthers + (IF bTimestamp = NoTime THEN 0 ELSE 1)

\* `if (this.config.activity.enabled && this.recentlyModifiedFiles.size > 0)`
BoostGuard(enabled, size) == enabled /\ size > 0

MaxNow == 67
BoostScores == {NoScore, <<0, 1>>, <<1, 4>>, <<1, 1>>}
\* package.json: activity.weight, minimum 0, maximum 1, default 0.5
Weights == {<<0, 1>>, <<1, 2>>, <<1, 1>>}
BoostSteps == {0, 1, 10}

InitBoostIdle ==
    /\ bType = TFile
    /\ bScore = NoScore
    /\ bTimestamp = NoTime
    /\ bWeight = <<1, 2>>
    /\ bNow = 1
    /\ bBoost = NoScore
    /\ bOut = NoScore
    /\ bApplied = FALSE
    /\ bEnabled = TRUE
    /\ bOthers = 0
    /\ bSearched = FALSE

InitBoost ==
    /\ bType \in SearchItemType
    /\ bScore \in BoostScores
    /\ bTimestamp \in {NoTime, 1}
    /\ bWeight \in Weights
    /\ bNow = 1
    /\ bBoost = NoScore
    /\ bOut = NoScore
    /\ bApplied = FALSE
    /\ bEnabled \in BOOLEAN
    /\ bOthers \in {0, 1}
    /\ bSearched = FALSE

\* The boost step of search for the item, d minutes after the previous one
\* (the scorer has written bScore again before it): behind the guard, the
\* loop body of boostRecentlyModifiedItems.
BoostItem(d) ==
    /\ bNow + d <= MaxNow
    /\ bNow' = bNow + d
    /\ bSearched' = TRUE
    /\ IF BoostGuard(bEnabled, RecentSize)
       THEN /\ bBoost' = Boost(bType, bTimestamp, bNow', bWeight)
            /\ bOut' = BoostedScore(bScore, bBoost')
            /\ bApplied' = TRUE
       ELSE /\ bBoost' = NoScore
            /\ bOut' = bScore
            /\ bApplied' = bApplied
    /\ UNCHANGED <<bType, bScore, bTimestamp, bWeight, bEnabled, bOthers>>

bAge == bNow - bTimestamp

\* A File item with a recorded timestamp and a numeric score, boosted.
BoostedFile ==
    /\ bApplied
    /\ bType = TFile
    /\ bTimestamp # NoTime
    /\ bScore # NoScore

(***************************************************************************)
(* Debouncer (utils/debouncer).  `timeout` is <<>> when null and <<fn>>    *)
(* when a timer is pending, fn being what the scheduled closure captured.  *)
(***************************************************************************)
NoTimeout == <<>>

\* A debounce that keeps the callback of a pending timer.
DebouncerKeepsFirst(timeout, fn) == IF timeout = <<>> THEN <<fn>> ELSE timeout

\* debounce(fn): clearTimeout on the pending timer, then setTimeout(fn)
DebouncerDebounce(timeout, fn) == <<fn>>

\* clear(): clearTimeout and timeout = null
DebouncerClear(timeout) == NoTimeout

\* the timer callback has run fn(): this.timeout = null
DebouncerFired(timeout) == NoTimeout

\* A guard that forgets to cancel the timer it holds.
ClearTimeoutForgotten(timers, timeout) == timers

\* `if (this.timeout) { clearTimeout(this.timeout); }` on the host's pending
\* timers: the timer that this.timeout holds, if it is still pending, is
\* cancelled
ClearTimeout(timers, timeout) ==
    IF timeout = NoTimeout THEN timers
    ELSE {t \in timers : t.fn # timeout[1]}

(***************************************************************************)
(* A Debouncer on its own, with the time of its timer.                     *)
(*   dTimeout  this.timeout                                                *)
(*   dDue      the time at which the pending timer is due                  *)
(*   dClock    the current time                                            *)
(*   dCalls    the calls of debounce(fn) so far: the time of each, and     *)
(*             whether clear() cancelled its timer; the fn of call number  *)
(*             j is j                                                      *)
(*   dRan      the callbacks executed so far: fn and the time              *)
(*   dTimers   the timers of this debouncer that are pending in the host:  *)
(*             set by setTimeout, neither fired nor cancelled; each with   *)
(*             the fn it will run and the time it is due                   *)
(* A timer fires when it is due: the clock does not pass the due time of a *)
(* pending timer.                                                          *)
(***************************************************************************)
VARIABLES dTimeout, dDue, dClock, dCalls, dRan, dTimers

debouncerVars == <<dTimeout, dDue, dClock, dCalls, dRan, dTimers>>

\* `new Debouncer(delay)`, in units of the clock
Delay == 2
MaxClock == 7
MaxDebounces == 3

InitDebouncer ==
    /\ dTimeout = NoTimeout
    /\ dDue = 0
    /\ dClock = 0
    /\ dCalls = <<>>
    /\ dRan = <<>>
    /\ dTimers = {}

\* debounce(fn)
DebounceCall ==
    /\ Len(dCalls) < MaxDebounces
    /\ dClock + Delay <= MaxClock
    /\ dTimeout' = DebouncerDebounce(dTimeout, Len(dCalls) + 1)
    /\ dDue' = dClock + Delay
    /\ dCalls' = Append(dCalls, [at |-> dClock, cleared |-> FALSE])
    /\ dTimers' = ClearTimeout(dTimers, dTimeout)
                      \cup {[fn |-> dTimeout'[1], due |-> dClock + Delay]}
    /\ UNCHANGED <<dClock, dRan>>

\* clear() while a timer is pending
ClearCall ==
    /\ dTimeout # NoTimeout
    /\ dTimeout' = DebouncerClear(dTimeout)
    /\ dCalls' = [dCalls EXCEPT ![Len(dCalls)].cleared = TRUE]
    /\ dTimers' = ClearTimeout(dTimers, dTimeout)
    /\ UNCHANGED <<dDue, dClock, dRan>>

\* time passes, short of the due time of a pending timer
TimePasses ==
    /\ dClock < MaxClock
    /\ \A t \in dTimers : dClock + 1 < t.due
    /\ dClock' = dClock + 1
    /\ UNCHANGED <<dTimeout, dDue, dCalls, dRan, dTimers>>

\* the timer is due: `fn(); this.timeout = null;`
TimerFires ==
    \E t \in dTimers :
        /\ \A u \in dTimers : t.due <= u.due
        /\ dClock' = t.due
        /\ dRan' = Append(dRan, [fn |-> t.fn, at |-> t.due])
        /\ dTimeout' = DebouncerFired(dTimeout)
        /\ dTimers' = dTimers \ {t}
        /\ UNCHANGED <<dDue, dCalls>>

(***************************************************************************)
(* Exclusion filter (utils/exclusions) and the File provider's enumeration *)
(* (providers/file-provider).  A path is the sequence of its segments and  *)
(* a segment is a name with its extension; a pattern is a sequence of      *)
(* pattern segments: `**`, a literal name, or `*.ext`.                     *)
(*   exUser      config.exclusions, as getConfiguration() reads it         *)
(*   exNocase    whether the host's file enumeration compares names        *)
(*               without regard to case (it is the host's choice)          *)
(*   exRefreshing, exFileItems   the provider's isRefreshing and fileItems *)
(*   exGlob      the excludePattern of the refresh in flight               *)
(*   exRead      the patterns the last refresh was started with            *)
(*   exRefreshes the number of refreshes that were not dropped             *)
(*   exChanges   the number of changes of config.exclusions so far         *)
(***************************************************************************)
VARIABLES exUser, exNocase, exRefreshing, exFileItems, exGlob, exRead,
          exRefreshes, exChanges

exclusionVars ==
    <<exUser, exNocase, exRefreshing, exFileItems, exGlob, exRead, exRefreshes,
      exChanges>>

MaxExRefreshes == 3
MaxExChanges == 2

Seg(name, ext) == [name |-> name, ext |-> ext]

GlobStar == Seg("**", "")

\* `**/d/**` and `**/*.e`
DirPattern(d) == <<GlobStar, Seg(d, ""), GlobStar>>

ExtPattern(e) == <<GlobStar, Seg("*", e)>>

\* the defaultPatterns of getExclusionPatterns: a directory pattern and a
\* file-type pattern stand for the list
DefaultPatterns == <<DirPattern("build"), ExtPattern("log")>>

\* the values of config.exclusions
UserExclusions ==
    {<<>>, <<DirPattern("gen")>>, <<ExtPattern("ts")>>,
     <<DirPattern("gen"), ExtPattern("ts")>>}

\* the files of the workspace folder, in the order the host lists them
ExWorkspace ==
    << <<Seg("src", ""), Seg("a", "ts")>>,
       <<Seg("src", ""), Seg("a", "log")>>,
       <<Seg("src", ""), Seg("b", "LOG")>>,
       <<Seg("build", ""), Seg("a", "js")>>,
       <<Seg("Build", ""), Seg("b", "js")>>,
       <<Seg("gen", ""), Seg("c", "js")>>,
       <<Seg("LICENSE", "")>> >>

\* String.prototype.toLowerCase on the names in use
ToLower(str) ==
    IF str = "Build" THEN "build"
    ELSE IF str = "LOG" THEN "log"
    ELSE IF str = "LICENSE" THEN "license"
    ELSE str

\* one pattern segment other than `**` against one path segment
SegmentMatches(pat, seg, nocase) ==
    LET fold(x) == IF nocase THEN ToLower(x) ELSE x
    IN  IF pat.name = "*"
        THEN seg.ext # "" /\ fold(seg.ext) = fold(pat.ext)
        ELSE fold(seg.name) = fold(pat.name) /\ fold(seg.ext) = fold(pat.ext)

\* glob matching of a whole path: `**` stands for any number of segments
RECURSIVE GlobMatches(_, _, _)
GlobMatches(pattern, path, nocase) ==
    IF pattern = <<>> THEN path = <<>>
    ELSE IF Head(pattern) = GlobStar
    THEN \E k \in 0..Len(path) :
            GlobMatches(Tail(pattern), SubSeq(path, k + 1, Len(path)), nocase)
    ELSE /\ path # <<>>
         /\ SegmentMatches(Head(pattern), Head(path), nocase)
         /\ GlobMatches(Tail(pattern), Tail(path), nocase)

\* minimatch(relativePath, pattern, {dot: true, matchBase: true,
\* nocase: true, ...}); every pattern in use has a slash, so matchBase does
\* not come into play
Minimatch(path, pattern) == GlobMatches(pattern, path, TRUE)

\* A configuration in which a non-empty user list replaces the built-in
\* patterns.
GetUserPatternsOnly(user) == IF user = <<>> THEN DefaultPatterns ELSE user

\* ExclusionPatterns.getExclusionPatterns()
GetExclusionPatterns(user) == DefaultPatterns \o user

GlobOpen == <<Seg("{", "")>>
GlobComma == <<Seg(",", "")>>
GlobClose == <<Seg("}", "")>>

\* patterns.join(',')
RECURSIVE Join(_)
Join(patterns) ==
    IF patterns = <<>> THEN <<>>
    ELSE IF Len(patterns) = 1 THEN patterns
    ELSE <<Head(patterns), GlobComma>> \o Join(Tail(patterns))

\* ExclusionPatterns.getExclusionGlob(): `{${patterns.join(',')}}`
GetExclusionGlob(user) ==
    <<GlobOpen>> \o Join(GetExclusionPatterns(user)) \o <<GlobClose>>

\* ExclusionPatterns.shouldExclude(uri) for a file of the workspace
ShouldExcludePath(path, user) ==
    \E i \in 1..Len(GetExclusionPatterns(user)) :
        Minimatch(path, GetExclusionPatterns(user)[i])

\* vscode.workspace.findFiles(new RelativePattern(folder, '**/*.*'), glob):
\* the files with a dot in their name that no alternative of the brace
\* expression matches
HostFindFiles(glob, nocase) ==
    LET alternatives ==
            SelectSeq(glob, LAMBDA p : p \notin {GlobOpen, GlobComma, GlobClose})
        included(path) == path[Len(path)].ext # ""
        excluded(path) ==
            \E i \in 1..Len(alternatives) :
                GlobMatches(alternatives[i], path, nocase)
    IN  SelectSeq(ExWorkspace, LAMBDA path : included(path) /\ ~excluded(path))

InitExclusion ==
    /\ exUser \in UserExclusions
    /\ exNocase \in BOOLEAN
    /\ exRefreshing = FALSE
    /\ exFileItems = <<>>
    /\ exGlob = <<>>
    /\ exRead = <<>>
    /\ exRefreshes = 0
    /\ exChanges = 0

InitExclusionIdle ==
    /\ exUser = <<>>
    /\ exNocase = FALSE
    /\ exRefreshing = FALSE
    /\ exFileItems = <<>>
    /\ exGlob = <<>>
    /\ exRead = <<>>
    /\ exRefreshes = 0
    /\ exChanges = 0

\* FileSearchProvider.refresh() up to `await findFiles(...)`; a call made
\* while a refresh is running returns at once
FileRefresh ==
    /\ exRefreshes < MaxExRefreshes
    /\ IF exRefreshing
       THEN UNCHANGED <<exRefreshing, exFileItems, exGlob, exRead, exRefreshes>>
       ELSE /\ exRefreshing' = TRUE
            /\ exFileItems' = <<>>
            /\ exGlob' = GetExclusionGlob(exUser)
            /\ exRead' = exUser
            /\ exRefreshes' = exRefreshes + 1
    /\ UNCHANGED <<exUser, exNocase, exChanges>>

\* findFiles resolves: processFileBatch pushes one item per file (the item
\* is its path), and the finally block resets isRefreshing
FileFindFilesReturns ==
    /\ exRefreshing
    /\ exFileItems' = exFileItems \o HostFindFiles(exGlob, exNocase)
    /\ exRefreshing' = FALSE
    /\ UNCHANGED <<exUser, exNocase, exGlob, exRead, exRefreshes, exChanges>>

\* findFiles rejects: the catch block logs, the finally block resets
\* isRefreshing
FileFindFilesThrows ==
    /\ exRefreshing
    /\ exRefreshing' = FALSE
    /\ UNCHANGED <<exUser, exNocase, exFileItems, exGlob, exRead, exRefreshes,
                   exChanges>>

\* the user edits searchEverywhere.exclusions
ChangeExclusions(user) ==
    /\ exChanges < MaxExChanges
    /\ user # exUser
    /\ exUser' = user
    /\ exChanges' = exChanges + 1
    /\ UNCHANGED <<exNocase, exRefreshing, exFileItems, exGlob, exRead,
                   exRefreshes>>

(***************************************************************************)
(* DocumentSymbolProvider.refresh over the workspace folders               *)
(* (providers/document-symbol-provider).  The files are counted, not       *)
(* named: a folder is the number of source files findFiles returns for it. *)
(*   dsFolders      vscode.workspace.workspaceFolders                      *)
(*   dsRefreshing   this.isRefreshing                                      *)
(*   dsItems        this.symbolItems.length                                *)
(*   dsPc           where the running refresh is suspended: at the         *)
(*                  findFiles of folder dsFolder, or at the batch that     *)
(*                  starts at index dsPos of its filesToProcess            *)
(*   dsRequests     vscode.executeDocumentSymbolProvider requests made by  *)
(*                  the refresh that last passed the guard                 *)
(*   dsThrew        whether a findFiles of that refresh has rejected       *)
(*   dsRuns         calls of refresh() so far                              *)
(***************************************************************************)
VARIABLES dsFolders, dsRefreshing, dsItems, dsPc, dsFolder, dsPos, dsRequests,
          dsThrew, dsRuns

scanVars ==
    <<dsFolders, dsRefreshing, dsItems, dsPc, dsFolder, dsPos, dsRequests,
      dsThrew, dsRuns>>

MaxFilesToProcess == 300
DocBatchSize == 20
MaxFolders == 2
MaxDocRefreshes == 2
FolderSizes == {0, 1, 299, 300, 301}

WorkspaceFolderLists == UNION {[1..n -> FolderSizes] : n \in 0..MaxFolders}

\* `files.slice(0, 300)`.length
FilesToProcess(files) == IF files < MaxFilesToProcess THEN files ELSE MaxFilesToProcess

InitScan ==
    /\ dsFolders \in WorkspaceFolderLists
    /\ dsRefreshing = FALSE
    /\ dsItems = 0
    /\ dsPc = "idle"
    /\ dsFolder = 0
    /\ dsPos = 0
    /\ dsRequests = 0
    /\ dsThrew = FALSE
    /\ dsRuns = 0

InitScanIdle ==
    /\ dsFolders = <<>>
    /\ dsRefreshing = FALSE
    /\ dsItems = 0
    /\ dsPc = "idle"
    /\ dsFolder = 0
    /\ dsPos = 0
    /\ dsRequests = 0
    /\ dsThrew = FALSE
    /\ dsRuns = 0

\* the `for (const folder of ...)` loop after folder f: the findFiles of
\* the next folder, or the finally block after the last
DocNextFolder(f) ==
    IF f < Len(dsFolders)
    THEN /\ dsPc' = "findFiles"
         /\ dsFolder' = f + 1
         /\ dsPos' = 0
         /\ UNCHANGED dsRefreshing
    ELSE /\ dsPc' = "idle"
         /\ dsFolder' = 0
         /\ dsPos' = 0
         /\ dsRefreshing' = FALSE

\* refresh() up to its first await; a call made while a refresh is running
\* returns at once
DocRefresh ==
    /\ dsRuns < MaxDocRefreshes
    /\ dsRuns' = dsRuns + 1
    /\ IF dsRefreshing
       THEN UNCHANGED <<dsRefreshing, dsItems, dsPc, dsFolder, dsPos, dsRequests,
                        dsThrew>>
       ELSE /\ dsItems' = 0
            /\ dsRequests' = 0
            /\ dsThrew' = FALSE
            /\ IF dsFolders = <<>>
               THEN /\ dsRefreshing' = FALSE
                    /\ UNCHANGED <<dsPc, dsFolder, dsPos>>
               ELSE /\ dsRefreshing' = TRUE
                    /\ dsPc' = "findFiles"
                    /\ dsFolder' = 1
                    /\ dsPos' = 0
    /\ UNCHANGED dsFolders

\* findFiles resolves for the folder: the first batch is cut, or the loop
\* goes on when there is no file to process
DocFindFilesReturns ==
    /\ dsPc = "findFiles"
    /\ IF FilesToProcess(dsFolders[dsFolder]) = 0
       THEN DocNextFolder(dsFolder)
       ELSE /\ dsPc' = "batch"
            /\ dsPos' = 0
            /\ UNCHANGED <<dsFolder, dsRefreshing>>
    /\ UNCHANGED <<dsFolders, dsItems, dsRequests, dsThrew, dsRuns>>

\* findFiles rejects: the catch block logs, the finally block resets
\* isRefreshing, and refresh() returns
DocFindFilesThrows ==
    /\ dsPc = "findFiles"
    /\ dsPc' = "idle"
    /\ dsFolder' = 0
    /\ dsPos' = 0
    /\ dsRefreshing' = FALSE
    /\ dsThrew' = TRUE
    /\ UNCHANGED <<dsFolders, dsItems, dsRequests, dsRuns>>

\* processFileBatch returns for the batch at dsPos: one request per file of
\* the batch, and one item for each of the `found` files that have a symbol
DocBatchProcessed ==
    /\ dsPc = "batch"
    /\ LET n == FilesToProcess(dsFolders[dsFolder])
           size == IF n - dsPos < DocBatchSize THEN n - dsPos ELSE DocBatchSize
       IN  /\ dsRequests' = dsRequests + size
           /\ \E found \in {0, size} : dsItems' = dsItems + found
           /\ IF dsPos + DocBatchSize < n
              THEN /\ dsPos' = dsPos + DocBatchSize
                   /\ UNCHANGED <<dsPc, dsFolder, dsRefreshing>>
              ELSE DocNextFolder(dsFolder)
    /\ UNCHANGED <<dsFolders, dsThrew, dsRuns>>

(***************************************************************************)
(* Activity tracking: SearchService.trackFileActivity and                  *)
(* trackDocumentActivity.                                                  *)
(*   recentlyModifiedFiles  the Map uri -> timestamp, as the sequence of   *)
(*                          its entries <<uri, timestamp>> in insertion    *)
(*                          order                                          *)
(*   activityTimeout        activityDebouncer.timeout                      *)
(*   now                    Date.now()                                     *)
(*   nextUri                the documents the user has touched so far are  *)
(*                          1..nextUri-1                                   *)
(*   retouches              number of events that were for a document      *)
(*                          touched before, or came while a timer was      *)
(*                          pending                                        *)
(***************************************************************************)
VARIABLES recentlyModifiedFiles, activityTimeout, now, nextUri, retouches

recencyVars == <<recentlyModifiedFiles, activityTimeout, now, nextUri, retouches>>

\* `if (this.recentlyModifiedFiles.size > 20)`
MaxRecentFiles == 20

MaxUris == 22
MaxRetouch == 2

MapKeys(m) == {m[i][1] : i \in 1..Len(m)}

MapHas(m, k) == k \in MapKeys(m)

\* Map.prototype.get, NoTime for undefined
MapGet(m, k) ==
    IF MapHas(m, k)
    THEN LET i == CHOOSE j \in 1..Len(m) : m[j][1] = k IN m[i][2]
    ELSE NoTime

\* Map.prototype.set: an existing key keeps its position
MapSet(m, k, v) ==
    IF MapHas(m, k)
    THEN [i \in 1..Len(m) |-> IF m[i][1] = k THEN <<k, v>> ELSE m[i]]
    ELSE Append(m, <<k, v>>)

\* Map.prototype.delete
MapDelete(m, k) == SelectSeq(m, LAMBDA e : e[1] # k)

\* [...entries].sort((a, b) => a[1] - b[1])[0][0]: the sort is stable, so it
\* is the first entry, in insertion order, among those of least timestamp.
OldestKey(m) ==
    LET i == CHOOSE j \in 1..Len(m) :
                 /\ \A k \in 1..Len(m) : m[j][2] <= m[k][2]
                 /\ \A k \in 1..(j - 1) : m[k][2] > m[j][2]
    IN  m[i][1]

\* An eviction that drops the entry inserted first.
RecordActivityEvictFirst(m, uri, t) ==
    LET set == MapSet(m, uri, t)
    IN  IF Len(set) > MaxRecentFiles
        THEN MapDelete(set, set[1][1])
        ELSE set

\* The debounced closure of trackDocumentActivity.
RecordActivity(m, uri, t) ==
    LET set == MapSet(m, uri, t)
    IN  IF Len(set) > MaxRecentFiles
        THEN MapDelete(set, OldestKey(set))
        ELSE set

InitRecency ==
    /\ recentlyModifiedFiles = <<>>
    /\ activityTimeout = NoTimeout
    /\ now = 1
    /\ nextUri = 1
    /\ retouches = 0

\* onDidSaveTextDocument / onDidChangeActiveTextEditor for a document that
\* has not been touched before.
TrackNewDocument ==
    /\ nextUri <= MaxUris
    /\ activityTimeout # NoTimeout => retouches < MaxRetouch
    /\ activityTimeout' = DebouncerDebounce(activityTimeout, nextUri)
    /\ nextUri' = nextUri + 1
    /\ retouches' = IF activityTimeout # NoTimeout THEN retouches + 1 ELSE retouches
    /\ UNCHANGED <<recentlyModifiedFiles, now>>

\* The same events for a document that is in the map already: the one
\* inserted first, or the one inserted last.
TrackKnownDocument ==
    /\ retouches < MaxRetouch
    /\ recentlyModifiedFiles # <<>>
    /\ \E uri \in {recentlyModifiedFiles[1][1],
                    recentlyModifiedFiles[Len(recentlyModifiedFiles)][1]} :
           activityTimeout' = DebouncerDebounce(activityTimeout, uri)
    /\ retouches' = retouches + 1
    /\ UNCHANGED <<recentlyModifiedFiles, now, nextUri>>

\* The activity timer fires, d time units after the previous reading of the
\* clock: the closure records Date.now() and evicts.
ActivityTimerFires(d) ==
    /\ activityTimeout # NoTimeout
    /\ now' = now + d
    /\ recentlyModifiedFiles' =
           RecordActivity(recentlyModifiedFiles, activityTimeout[1], now')
    /\ activityTimeout' = DebouncerFired(activityTimeout)
    /\ UNCHANGED <<nextUri, retouches>>

\* The editor changes the user makes while searching: a bound of the model.
MaxEditorChanges == 1

\* onDidChangeActiveTextEditor for an editor on a document: the activity is
\* tracked and nothing else is scheduled.  (`now` is one more than the number
\* of firings of the activity timer.)
ChangeActiveEditor(uri) ==
    /\ now <= MaxEditorChanges
    /\ activityTimeout' = DebouncerDebounce(activityTimeout, uri)
    /\ UNCHANGED <<recentlyModifiedFiles, now, nextUri, retouches>>

(***************************************************************************)
(* C9 (as stated): for a File item with a recorded timestamp and a numeric *)
(* score the boost never lowers the score, the multiplier strictly         *)
(* decreases as the age grows toward one hour, and it is exactly 1 from    *)
(* one hour on.                                                            *)
(***************************************************************************)
C9_NeverLowers == BoostedFile => RLeq(bScore, bOut)

C9_NoBoostAfterHour == (BoostedFile /\ bAge >= OneHour) => bBoost = One

C9_StrictlyDecreasing ==
    (BoostedFile /\ BoostedFile' /\ bAge < bAge' /\ bAge' <= OneHour)
        => RLess(bBoost', bBoost)

C9_Original ==
    [][C9_NeverLowers' /\ C9_NoBoostAfterHour' /\ C9_StrictlyDecreasing]_boostVars

(***************************************************************************)
(* C9 (amended): for a File item with a recorded timestamp and a numeric   *)
(* score the boost never lowers the score and the multiplier is exactly 1  *)
(* from one hour on; as the age grows toward one hour the multiplier       *)
(* strictly decreases when activityWeight > 0 and is constantly 1 when     *)
(* activityWeight = 0.                                                     *)
(***************************************************************************)
C9_DecreasingForWeight ==
    (BoostedFile /\ BoostedFile' /\ bAge < bAge' /\ bAge' <= OneHour)
        => IF RLess(Zero, bWeight) THEN RLess(bBoost', bBoost)
           ELSE bBoost' = One /\ bBoost = One

C9_Amended ==
    [][C9_NeverLowers' /\ C9_NoBoostAfterHour' /\ C9_DecreasingForWeight]_boostVars

C9_Witness ==
    /\ BoostedFile
    /\ RLess(Zero, bWeight)
    /\ RLess(Zero, bScore)
    /\ bAge > 0 /\ bAge < OneHour
    /\ RLess(bScore, bOut)

(***************************************************************************)
(* C10: for a File item the multiplier is 1 + max(0, 1 - age/1h) * weight; *)
(* at age 10 minutes and weight 0.5 it is 17/12.                           *)
(***************************************************************************)
C10_BoostFormula ==
    BoostedFile =>
        LET left == IF OneHour - bAge > 0 THEN OneHour - bAge ELSE 0
        IN  /\ bBoost[1] * (OneHour * bWeight[2])
                 = bBoost[2] * (OneHour * bWeight[2] + left * bWeight[1])
            /\ (bAge = 10 /\ bWeight = <<1, 2>>) => bBoost = <<17, 12>>

C10_Witness ==
    /\ BoostedFile
    /\ bAge = 10
    /\ bWeight = <<1, 2>>
    /\ bBoost = <<17, 12>>

(***************************************************************************)
(* Ranking: SearchService.sortResultsByPriority.                           *)
(* An item is ranked by its score (NoScore when it has none) and its       *)
(* priority (0 when unset: `a.priority || 50` reads 0 and undefined alike).*)
(***************************************************************************)
DefaultPriority == 50

PriorityOf(p) == IF p = 0 THEN DefaultPriority ELSE p

Sign(x) == IF x < 0 THEN 0 - 1 ELSE IF x > 0 THEN 1 ELSE 0

\* typeof a.score === 'number' && typeof b.score === 'number' &&
\* Math.abs(a.score - b.score) > 0.1
ScoresDiffer(sa, sb) ==
    /\ sa # NoScore
    /\ sb # NoScore
    /\ RLess(<<1, 10>>, RAbs(RSub(sa, sb)))

\* A comparator that orders by priority whatever the scores are.
ComparePriorityOnly(sa, pa, sb, pb) == Sign(PriorityOf(pb) - PriorityOf(pa))

\* The sign of the comparator's result for a = (sa, pa) and b = (sb, pb);
\* negative: a sorts before b.
Compare(sa, pa, sb, pb) ==
    IF ScoresDiffer(sa, sb)
    THEN Sign(RSub(sb, sa)[1])
    ELSE Sign(PriorityOf(pb) - PriorityOf(pa))

\* Lists of ranked items are sequences of records with fields score and
\* priority (and whatever else the item has).
Cmp(a, b) == Compare(a.score, a.priority, b.score, b.priority)

\* ECMAScript (Array.prototype.sort): comparefn is a consistent comparator
\* for the values of the list.
ConsistentComparator(list) ==
    LET S == {list[i] : i \in 1..Len(list)}
    IN  /\ \A a \in S : Cmp(a, a) = 0
        /\ \A a, b \in S : Cmp(a, b) = 0 => Cmp(b, a) = 0
        /\ \A a, b, c \in S :
              /\ (Cmp(a, b) = 0 /\ Cmp(b, c) = 0) => Cmp(a, c) = 0
              /\ (Cmp(a, b) < 0 /\ Cmp(b, c) < 0) => Cmp(a, c) < 0
              /\ (Cmp(a, b) > 0 /\ Cmp(b, c) > 0) => Cmp(a, c) > 0

RECURSIVE InsertSorted(_, _)
InsertSorted(sorted, x) ==
    IF sorted = <<>> THEN <<x>>
    ELSE IF Cmp(x, Head(sorted)) < 0 THEN <<x>> \o sorted
    ELSE <<Head(sorted)>> \o InsertSorted(Tail(sorted), x)

RECURSIVE StableSort(_)
StableSort(list) ==
    IF list = <<>> THEN <<>>
    ELSE InsertSorted(StableSort(SubSeq(list, 1, Len(list) - 1)), list[Len(list)])

Reorderings(list) ==
    LET n == Len(list)
        P == {f \in [1..n -> 1..n] : \A i, j \in 1..n : f[i] = f[j] => i = j}
    IN  {[i \in 1..n |-> list[f[i]]] : f \in P}

\* The lists results.sort(comparator) can leave in `results`: the stable
\* sorted order for a consistent comparator, and an implementation-defined
\* permutation otherwise.
SortResultsByPriority(list) ==
    IF ConsistentComparator(list) THEN {StableSort(list)} ELSE Reorderings(list)

\* A slice that keeps the whole list.
SliceAll(list, n) == list

\* Array.prototype.slice(0, n), n >= 0
Slice(list, n) == SubSeq(list, 1, IF n < Len(list) THEN n ELSE Len(list))

(***************************************************************************)
(* The last two steps of search on one list of results.                    *)
(*   sortIn    the results before the sort                                 *)
(*   sortMax   config.performance.maxResults                               *)
(*   sortOut   the list returned                                           *)
(*   sortDone  the steps have run                                          *)
(***************************************************************************)
VARIABLES sortIn, sortMax, sortOut, sortDone

sortVars == <<sortIn, sortMax, sortOut, sortDone>>

MaxSortLen == 3
SortScores == {<<9, 50>>, <<6, 25>>, <<3, 10>>}
\* unset (files, commands), function-like symbols, class-like symbols
SortPriorities == {0, 90, 100}
\* scored items, and an item no scorer has written a score on
SortItems ==
    [score : SortScores, priority : SortPriorities]
        \cup {[score |-> NoScore, priority |-> 0]}

RECURSIVE SeqsUpTo(_, _)
SeqsUpTo(S, n) ==
    IF n = 0 THEN {<<>>}
    ELSE LET shorter == SeqsUpTo(S, n - 1)
         IN  shorter \cup {Append(q, x) : q \in {r \in shorter : Len(r) = n - 1}, x \in S}

InitSortIdle ==
    /\ sortIn = <<>>
    /\ sortMax = 0
    /\ sortOut = <<>>
    /\ sortDone = FALSE

InitSort ==
    /\ sortIn \in SeqsUpTo(SortItems, MaxSortLen)
    /\ sortMax \in (MaxSortLen - 1)..MaxSortLen
    /\ sortOut = <<>>
    /\ sortDone = FALSE

\* this.sortResultsByPriority(results); return results.slice(0, maxResults)
SortAndSlice ==
    /\ ~sortDone
    /\ \E sorted \in SortResultsByPriority(sortIn) :
           sortOut' = Slice(sorted, sortMax)
    /\ sortDone' = TRUE
    /\ UNCHANGED <<sortIn, sortMax>>

(***************************************************************************)
(* Strings.  A string is the sequence of its characters.                   *)
(***************************************************************************)
\* String.prototype.toLowerCase, on the characters the workspace uses
LowerChar(c) == IF c = "A" THEN "a" ELSE IF c = "B" THEN "b" ELSE c

ToLowerCase(str) == [i \in 1..Len(str) |-> LowerChar(str[i])]

\* String.prototype.trim
RECURSIVE TrimStart(_)
TrimStart(str) ==
    IF str # <<>> /\ Head(str) = " " THEN TrimStart(Tail(str)) ELSE str

RECURSIVE TrimEnd(_)
TrimEnd(str) ==
    IF str # <<>> /\ str[Len(str)] = " "
    THEN TrimEnd(SubSeq(str, 1, Len(str) - 1))
    ELSE str

Trim(str) == TrimEnd(TrimStart(str))

\* String.prototype.indexOf: the 0-based offset of the first occurrence, -1
\* when there is none
IndexOf(str, sub) ==
    LET hits == {i \in 0..(Len(str) - Len(sub)) :
                    SubSeq(str, i + 1, i + Len(sub)) = sub}
    IN  IF hits = {} THEN 0 - 1
        ELSE CHOOSE i \in hits : \A j \in hits : i <= j

\* String.prototype.includes
Includes(str, sub) == IndexOf(str, sub) >= 0

\* String.prototype.startsWith
StartsWith(str, sub) ==
    Len(sub) <= Len(str) /\ SubSeq(str, 1, Len(sub)) = sub

\* the decimal digits of a natural number (template literal `${n}`)
Digit(n) ==
    IF n = 0 THEN "0" ELSE IF n = 1 THEN "1" ELSE IF n = 2 THEN "2"
    ELSE IF n = 3 THEN "3" ELSE IF n = 4 THEN "4" ELSE IF n = 5 THEN "5"
    ELSE IF n = 6 THEN "6" ELSE IF n = 7 THEN "7" ELSE IF n = 8 THEN "8"
    ELSE "9"

RECURSIVE NatToString(_)
NatToString(n) ==
    IF n < 10 THEN <<Digit(n)>> ELSE Append(NatToString(n \div 10), Digit(n % 10))

(***************************************************************************)
(* The workspace the host reports.  Resources are numbered; 1 and 2 are    *)
(* the files of the workspace folder, ab.c and b.c.                        *)
(***************************************************************************)
WorkspaceFiles == <<1, 2>>

\* vscode.workspace.asRelativePath(uri), and the file name
RelativePath(uri) ==
    IF uri = 1 THEN <<"a", "b", ".", "c">>
    ELSE IF uri = 2 THEN <<"b", ".", "c">>
    ELSE <<"x", ".", "c">>

\* uri.fsPath
FsPath(uri) == <<"/">> \o RelativePath(uri)

\* document.getText().split('\n') of each file
FileLines(uri) ==
    IF uri = 1 THEN << <<"A">> >>
    ELSE IF uri = 2 THEN << <<"b">>, <<" ", "a", "(", ")">> >>
    ELSE <<>>

\* vscode.executeWorkspaceSymbolProvider: the SymbolInformation list
WorkspaceSymbols ==
    << [name |-> <<"b">>, kind |-> "Method", uri |-> 2, line |-> 0, char |-> 0] >>

\* vscode.executeDocumentSymbolProvider(uri): the DocumentSymbol list (the
\* language server names methods with their parameter list)
DocumentSymbols(uri) ==
    IF uri = 1
    THEN << [name |-> <<"A">>, kind |-> "Class", uri |-> 1,
             line |-> 0, char |-> 0] >>
    ELSE IF uri = 2
    THEN << [name |-> <<"b", "(", ")">>, kind |-> "Method", uri |-> 2,
             line |-> 0, char |-> 0] >>
    ELSE <<>>

\* vscode.commands.getCommands(true)
HostCommands == << <<"a", "B">>, <<"_", "b">>, <<"a", ".", "b">> >>

\* ExclusionPatterns.shouldExclude: the workspace paths that match one of the
\* exclusion patterns
ExcludedUris == {3}

ShouldExclude(uri) == uri \in ExcludedUris

(***************************************************************************)
(* Item objects.  An item is a record of its immutable properties; `oid`   *)
(* is the identity of the object, and the mutable `score` property of the  *)
(* object oid is scoreOf[oid] (NoScore when the property is absent).       *)
(***************************************************************************)
VARIABLES scoreOf

heapVars == <<scoreOf>>

InitHeap == scoreOf = <<>>

HasObject(oid) == oid \in DOMAIN scoreOf

\* the objects `items` with their scores set as in `scores`
WithScores(heap, scores) ==
    [o \in (DOMAIN heap) \cup (DOMAIN scores) |->
        IF o \in DOMAIN scores THEN scores[o] ELSE heap[o]]

(***************************************************************************)
(* The items the index providers make.  Every item has the same fields;    *)
(* uri 0, command <<>>, matchText <<>> and priority 0 stand for an absent  *)
(* property.                                                               *)
(***************************************************************************)
\* mapSymbolKindToGroup
MapSymbolKindToGroup(kind) ==
    IF kind \in {"Class", "Interface", "Struct", "Enum"} THEN "Class"
    ELSE IF kind \in {"Function", "Method", "Constructor"} THEN "Function"
    ELSE IF kind \in {"Variable", "Property", "Field", "Constant"} THEN "Variable"
    ELSE "Other"

\* A priority taken from the group of the kind.
GetGroupPriority(kind) ==
    IF MapSymbolKindToGroup(kind) = "Class" THEN 100
    ELSE IF MapSymbolKindToGroup(kind) = "Function" THEN 90
    ELSE IF MapSymbolKindToGroup(kind) = "Variable" THEN 40
    ELSE 50

\* DocumentSymbolProvider.getSymbolPriority
GetDocumentSymbolPriority(kind) ==
    IF kind \in {"Class", "Interface", "Enum", "Struct"} THEN 100
    ELSE IF kind \in {"Method", "Function", "Constructor"} THEN 90
    ELSE IF kind \in {"Property", "Field", "EnumMember"} THEN 70
    ELSE IF kind = "Constant" THEN 60
    ELSE IF kind = "Variable" THEN 40
    ELSE 50

\* SymbolSearchProvider.getSymbolPriority
GetSymbolPriority(kind) ==
    IF kind \in {"Class", "Interface", "Enum", "Struct"} THEN 100
    ELSE IF kind \in {"Method", "Function", "Constructor"} THEN 90
    ELSE IF kind \in {"Property", "Field", "EnumMember"} THEN 70
    ELSE IF kind = "Constant" THEN 60
    ELSE IF kind = "Variable" THEN 40
    ELSE 50

\* getSymbolKindName, for the kinds the workspace has
GetSymbolKindName(kind) ==
    IF kind = "Class" THEN <<"C", "l", "a", "s", "s">>
    ELSE IF kind = "Method" THEN <<"M", "e", "t", "h", "o", "d">>
    ELSE <<"S", "y", "m", "b", "o", "l">>

\* FileSearchProvider.processFileBatch: the item of one file
FileItem(oid, uri) ==
    [oid |-> oid,
     type |-> TFile,
     id |-> <<"file", uri>>,
     label |-> RelativePath(uri),
     description |-> RelativePath(uri),
     detail |-> FsPath(uri),
     uri |-> uri,
     line |-> 0,
     col |-> 0,
     command |-> <<>>,
     matchText |-> <<>>,
     priority |-> 0]

\* SymbolSearchProvider.convertToSearchItem and
\* DocumentSymbolProvider.processSymbols: the item of one symbol
SymbolItem(oid, symbol) ==
    [oid |-> oid,
     type |-> IF MapSymbolKindToGroup(symbol.kind) = "Class" THEN TClass
              ELSE TSymbol,
     id |-> <<"symbol", symbol.name, symbol.uri, symbol.line, symbol.char>>,
     label |-> symbol.name,
     description |-> GetSymbolKindName(symbol.kind),
     detail |-> FsPath(symbol.uri),
     uri |-> symbol.uri,
     line |-> symbol.line,
     col |-> symbol.char,
     command |-> <<>>,
     matchText |-> <<>>,
     priority |-> IF oid[1] = "docSymbols"
                  THEN GetDocumentSymbolPriority(symbol.kind)
                  ELSE GetSymbolPriority(symbol.kind)]

IsLower(c) == c \in {"a", "b", "c", "x"}
IsUpper(c) == c \in {"A", "B"}
IsWordChar(c) == IsLower(c) \/ IsUpper(c) \/ c = "_"
UpperChar(c) == IF c = "a" THEN "A" ELSE IF c = "b" THEN "B" ELSE c

\* name.replace(/([a-z])([A-Z])/g, '$1 $2')
RECURSIVE SplitCamelCase(_)
SplitCamelCase(str) ==
    IF Len(str) < 2 THEN str
    ELSE IF IsLower(str[1]) /\ IsUpper(str[2])
    THEN <<str[1], " ", str[2]>> \o SplitCamelCase(SubSeq(str, 3, Len(str)))
    ELSE <<str[1]>> \o SplitCamelCase(Tail(str))

\* CommandSearchProvider.formatCommandName
FormatCommandName(command) ==
    LET split == SplitCamelCase(command)
        spaced == [i \in 1..Len(split) |-> IF split[i] = "-" THEN " " ELSE split[i]]
    IN  [i \in 1..Len(spaced) |->
            IF IsWordChar(spaced[i]) /\ (i = 1 \/ ~IsWordChar(spaced[i - 1]))
            THEN UpperChar(spaced[i])
            ELSE spaced[i]]

\* the filter of getCommandItems
IsListedCommand(cmd) ==
    /\ ~StartsWith(cmd, <<"_">>)
    /\ ~StartsWith(cmd, <<"v", "s", "c", "o", "d", "e", ".">>)
    /\ ~StartsWith(cmd, <<"w", "o", "r", "k", "b", "e", "n", "c", "h", ".">>)
    /\ ~StartsWith(cmd, <<"e", "d", "i", "t", "o", "r", ".">>)
    /\ ~Includes(cmd, <<".">>)

\* getCommandItems: the item of one command
CommandItem(oid, cmd) ==
    [oid |-> oid,
     type |-> TCommand,
     id |-> <<"command", cmd>>,
     label |-> FormatCommandName(cmd),
     description |-> <<"C", "o", "m", "m", "a", "n", "d">>,
     detail |-> cmd,
     uri |-> 0,
     line |-> 0,
     col |-> 0,
     command |-> cmd,
     matchText |-> <<>>,
     priority |-> 0]

(***************************************************************************)
(* Deduplication: SearchService.getDeduplicationKey and the merge loop of  *)
(* refreshIndex and updateIndexFromProviders.  A key is the tuple of the   *)
(* parts the code joins with ':'.                                          *)
(***************************************************************************)
\* A normalisation that keeps the label as it is.
StripParensKept(label) == label

\* item.label.replace(/\(\)$/, '')
StripParens(label) ==
    IF Len(label) >= 2 /\ label[Len(label) - 1] = "(" /\ label[Len(label)] = ")"
    THEN SubSeq(label, 1, Len(label) - 2)
    ELSE label

GetDeduplicationKey(item) ==
    LET normalizedLabel == StripParens(item.label)
    IN  IF item.type = TSymbol
        THEN <<"symbol", normalizedLabel, item.uri, item.line, item.col>>
        ELSE IF item.type = TClass
        THEN <<"class", normalizedLabel, item.uri, item.line, item.col>>
        ELSE IF item.type = TFile
        THEN <<"file", item.uri>>
        ELSE IF item.type = TCommand
        THEN <<"command", item.command>>
        ELSE <<item.type, normalizedLabel>> \o Tail(item.id)

\* the keys of a deduplication map, which is kept as the sequence of its
\* values in insertion order
KeysOf(map) == {GetDeduplicationKey(map[i]) : i \in 1..Len(map)}

\* A merge that stores every item, whatever the map holds.
RECURSIVE MergeItemsUnchecked(_, _)
MergeItemsUnchecked(map, items) ==
    IF items = <<>> THEN map
    ELSE MergeItemsUnchecked(Append(map, Head(items)), Tail(items))

\* A merge in which a later item replaces the one stored under its key.
RECURSIVE MergeItemsLastWins(_, _)
MergeItemsLastWins(map, items) ==
    IF items = <<>> THEN map
    ELSE LET item == Head(items)
             key == GetDeduplicationKey(item)
         IN  MergeItemsLastWins(
                 IF key \in KeysOf(map)
                 THEN [i \in 1..Len(map) |->
                          IF GetDeduplicationKey(map[i]) = key THEN item ELSE map[i]]
                 ELSE Append(map, item),
                 Tail(items))

\* `if (!deduplicationMap.has(dedupeKey)) deduplicationMap.set(dedupeKey, item)`
\* for each item of a provider's snapshot
RECURSIVE MergeItems(_, _)
MergeItems(map, items) ==
    IF items = <<>> THEN map
    ELSE LET item == Head(items)
         IN  MergeItems(
                 IF GetDeduplicationKey(item) \in KeysOf(map) THEN map
                 ELSE Append(map, item),
                 Tail(items))

(***************************************************************************)
(* Fuzzy scorer: FuzzysortAdapter.search and FuzzaldrinAdapter.search.     *)
(* The libraries are not part of the repository.  A target matches when    *)
(* the characters of the query occur in it in order, whatever their case;  *)
(* both libraries rate a match at the start of the target above a match    *)
(* further in, and LibraryScore is one rating of that kind for each.       *)
(***************************************************************************)
Libraries == {"fuzzysort", "fuzzaldrin-plus"}

\* `${item.label} ${item.description || ''} ${item.detail || ''}`
SearchText(item) ==
    item.label \o <<" ">> \o item.description \o <<" ">> \o item.detail

RECURSIVE IsSubsequence(_, _)
IsSubsequence(sub, str) ==
    IF sub = <<>> THEN TRUE
    ELSE IF str = <<>> THEN FALSE
    ELSE IF Head(sub) = Head(str) THEN IsSubsequence(Tail(sub), Tail(str))
    ELSE IsSubsequence(sub, Tail(str))

FuzzyMatches(item, query) ==
    IsSubsequence(ToLowerCase(query), ToLowerCase(SearchText(item)))

\* result.score of fuzzysort (0 is a perfect match, lower is worse) and
\* fuzzaldrinPlus.score (higher is better)
LibraryScore(library, target, query) ==
    LET atStart == StartsWith(ToLowerCase(target), ToLowerCase(query))
    IN  IF library = "fuzzysort"
        THEN IF atStart THEN 0 ELSE 0 - 750
        ELSE IF atStart THEN 150 ELSE 50

\* the score the adapter writes to the item:
\* Math.max(0, 1000 + result.score) / 1000, or score / 100
AdapterScore(library, item, query) ==
    LET raw == LibraryScore(library, SearchText(item), query)
    IN  IF library = "fuzzysort"
        THEN Rat(IF 1000 + raw > 0 THEN 1000 + raw ELSE 0, 1000)
        ELSE Rat(raw, 100)

\* the orders in which the library can return the matches: by decreasing
\* score
RankedByScore(matched, scores) ==
    {r \in Reorderings(matched) :
        \A i \in 1..(Len(r) - 1) : RLeq(scores[r[i + 1].oid], scores[r[i].oid])}

\* the library's `limit` / `maxResults` option: whether 0 means no result
\* or no limit is the library's choice
LibraryLimit(r, limit) ==
    {Slice(r, limit)} \cup (IF limit = 0 THEN {r} ELSE {})

\* the outcomes of searcher.search(items, query, limit): the list returned
\* and the scores written to the item objects (the library is asked for
\* limit * 2 results, each of them gets its score, and the first `limit` are
\* returned)
FuzzySearch(library, items, query, limit) ==
    IF Trim(query) = <<>>
    THEN {[found |-> Slice(items, limit), scores |-> <<>>]}
    ELSE LET matched == SelectSeq(items, LAMBDA item : FuzzyMatches(item, query))
             sc == [o \in {matched[i].oid : i \in 1..Len(matched)} |->
                      LET item == CHOOSE m \in {matched[i] : i \in 1..Len(matched)} :
                                      m.oid = o
                      IN  AdapterScore(library, item, query)]
         IN  UNION {
                 {[found |-> Slice(results, limit),
                   scores |-> [o \in {results[i].oid : i \in 1..Len(results)}
                                  |-> sc[o]]] :
                      results \in LibraryLimit(r, limit * 2)} :
                 r \in RankedByScore(matched, sc)}

(***************************************************************************)
(* A fuzzy adapter on its own: searcher.search(items, query, limit) is     *)
(* called on one list of item objects, whose scores are in scoreOf.        *)
(*   fzLibrary    the adapter: "fuzzysort" or "fuzzaldrin-plus"            *)
(*   fzItems      the list passed as `items`                               *)
(*   fzQuery, fzLimit   the arguments of the last call                     *)
(*   fzFound      the list the last call returned                          *)
(*   fzBefore     the scores of the item objects when the last call began  *)
(*   fzCalls      number of calls so far                                   *)
(***************************************************************************)
VARIABLES fzLibrary, fzItems, fzQuery, fzLimit, fzFound, fzBefore, fzCalls

fuzzyVars == <<fzLibrary, fzItems, fzQuery, fzLimit, fzFound, fzBefore, fzCalls>>

MaxFuzzyLen == 3
MaxFuzzyLimit == 2
MaxFuzzyCalls == 2
FuzzyQueries == {<<>>, <<" ">>, <<"a">>, <<"b">>, <<"z">>}

\* the item objects the lists are made of: the files ab.c and b.c and the
\* method b
FuzzyPool ==
    {FileItem(<<"files", 1, 1, 1>>, 1), FileItem(<<"files", 1, 1, 2>>, 2),
     SymbolItem(<<"symbols", 1, 1, 1>>, WorkspaceSymbols[1])}

\* the lists of distinct objects of the pool, in every order
FuzzyInputs ==
    UNION {{l \in [1..n -> FuzzyPool] :
               \A i, j \in 1..n : i # j => l[i] # l[j]} : n \in 0..MaxFuzzyLen}

InitFuzzy ==
    /\ fzLibrary \in {"fuzzysort", "fuzzaldrin-plus"}
    /\ fzItems \in FuzzyInputs
    /\ fzQuery = <<>>
    /\ fzLimit = 0
    /\ fzFound = <<>>
    /\ fzBefore = <<>>
    /\ fzCalls = 0

InitFuzzyIdle ==
    /\ fzLibrary = "fuzzysort"
    /\ fzItems = <<>>
    /\ fzQuery = <<>>
    /\ fzLimit = 0
    /\ fzFound = <<>>
    /\ fzBefore = <<>>
    /\ fzCalls = 0

\* searcher.search(fzItems, query, limit)
FuzzySearchCall(query, limit) ==
    /\ fzCalls < MaxFuzzyCalls
    /\ fzCalls' = fzCalls + 1
    /\ fzQuery' = query
    /\ fzLimit' = limit
    /\ fzBefore' = scoreOf
    /\ \E out \in FuzzySearch(fzLibrary, fzItems, query, limit) :
           /\ fzFound' = out.found
           /\ scoreOf' = WithScores(scoreOf, out.scores)
    /\ UNCHANGED <<fzLibrary, fzItems>>

(***************************************************************************)
(* Text matcher: TextSearchProvider (providers/text-provider).             *)
(*   text[p]    the fields of provider instance p: isSearching, lastQuery, *)
(*              searchResults, searchCancellation (0 when null, else the   *)
(*              CancellationTokenSource made by that call)                 *)
(*   calls[c]   the activation of search(query) number c: its provider     *)
(*              instance, query, place (pc), the files findFiles returned, *)
(*              the index of the file being scanned, the value returned,   *)
(*              the caller to resume, and the activation whose source it   *)
(*              cancelled on entry (stale, 0 when none)                    *)
(*   cancelled  the CancellationTokenSources on which cancel() was called  *)
(*   nextCall   number of the next activation                              *)
(***************************************************************************)
VARIABLES text, calls, cancelled, nextCall

textVars == <<text, calls, cancelled, nextCall>>

MaxTextCalls == 3
\* MaxEvents bounds the commands, searches, host events and rejected host
\* calls of a behaviour; each of them makes at most one registration and at
\* most two activations (a search and the refreshIndex it awaits), after
\* those of the constructor.
MaxEvents == 2
MaxGen == MaxEvents + 1
Gens == 1..MaxGen
TextQueries == {<<"a">>, <<"b">>, <<" ">>}

NewTextProvider ==
    [isSearching |-> FALSE, lastQuery |-> <<>>, searchResults |-> <<>>,
     searchCancellation |-> 0]

IdleCall ==
    [inst |-> 0, query |-> <<>>, pc |-> "idle", files |-> <<>>, idx |-> 0,
     ret |-> <<>>, caller |-> 0, stale |-> 0]

InitText ==
    /\ text = [p \in Gens |-> NewTextProvider]
    /\ calls = [c \in 1..MaxTextCalls |-> IdleCall]
    /\ cancelled = {}
    /\ nextCall = 1

\* processResult: the TextMatchItem for a match of `query` at offset
\* charIndex of line lineIndex of uri, made by activation c
TextMatchItem(c, uri, lineIndex, charIndex, line, query) ==
    [oid |-> <<"text", c, uri, lineIndex>>,
     type |-> TTextMatch,
     id |-> <<"text-match", uri, lineIndex, charIndex>>,
     label |-> Trim(line),
     description |-> RelativePath(uri),
     detail |-> <<"L", "i", "n", "e", " ">> \o NatToString(lineIndex + 1),
     uri |-> uri,
     line |-> lineIndex,
     col |-> charIndex,
     command |-> <<>>,
     matchText |-> SubSeq(line, charIndex + 1, charIndex + Len(query)),
     priority |-> 30]

(***************************************************************************)
(* The priority the providers give to an item: one symbol of each kind of  *)
(* vscode.SymbolKind is converted by the SymbolSearchProvider and by the   *)
(* DocumentSymbolProvider, and a text match is made.                       *)
(*   pkKind        the kind of the symbol                                  *)
(*   pkWorkspace   item.priority of the SymbolSearchProvider's item        *)
(*   pkDocument    item.priority of the DocumentSymbolProvider's item      *)
(*   pkText        item.priority of the TextSearchProvider's item          *)
(* 0 stands for an item not made yet.                                      *)
(***************************************************************************)
VARIABLES pkKind, pkWorkspace, pkDocument, pkText

priorityVars == <<pkKind, pkWorkspace, pkDocument, pkText>>

SymbolKinds ==
    {"File", "Module", "Namespace", "Package", "Class", "Method", "Property",
     "Field", "Constructor", "Enum", "Interface", "Function", "Variable",
     "Constant", "String", "Number", "Boolean", "Array", "Object", "Key",
     "Null", "EnumMember", "Struct", "Event", "Operator", "TypeParameter"}

InitPriority ==
    /\ pkKind \in SymbolKinds
    /\ pkWorkspace = 0
    /\ pkDocument = 0
    /\ pkText = 0

InitPriorityIdle ==
    /\ pkKind = "Class"
    /\ pkWorkspace = 0
    /\ pkDocument = 0
    /\ pkText = 0

\* the symbol of kind pkKind at the start of b.c
SymbolOfKind ==
    [name |-> <<"b">>, kind |-> pkKind, uri |-> 2, line |-> 0, char |-> 0]

\* SymbolSearchProvider.convertToSearchItem
ConvertWorkspaceSymbol ==
    /\ pkWorkspace = 0
    /\ pkWorkspace' = SymbolItem(<<"symbols", 1, 1, 1>>, SymbolOfKind).priority
    /\ UNCHANGED <<pkKind, pkDocument, pkText>>

\* DocumentSymbolProvider.processSymbols
ProcessDocumentSymbol ==
    /\ pkDocument = 0
    /\ pkDocument' = SymbolItem(<<"docSymbols", 1, 1, 1>>, SymbolOfKind).priority
    /\ UNCHANGED <<pkKind, pkWorkspace, pkText>>

\* TextSearchProvider.processResult
ProcessTextResult ==
    /\ pkText = 0
    /\ pkText' = TextMatchItem(1, 2, 0, 0, <<"b">>, <<"b">>).priority
    /\ UNCHANGED <<pkKind, pkWorkspace, pkDocument>>

\* searchInFile after openTextDocument: the items pushed for the lines of
\* uri that include the query, case-insensitively, in line order
RECURSIVE FileMatches(_, _, _, _)
FileMatches(c, uri, query, n) ==
    IF n = 0 THEN <<>>
    ELSE LET line == FileLines(uri)[n]
             charIndex == IndexOf(ToLowerCase(line), ToLowerCase(query))
             before == FileMatches(c, uri, query, n - 1)
         IN  IF charIndex >= 0 /\ ~ShouldExclude(uri)
             THEN Append(before, TextMatchItem(c, uri, n - 1, charIndex, line, query))
             ELSE before

\* cancelSearch(): the fields after it, and the sources cancelled after it
CancelSearchFields(t) ==
    [t EXCEPT !.searchCancellation = 0, !.isSearching = FALSE]

CancelSearchSources(t) ==
    IF t.searchCancellation # 0 THEN cancelled \cup {t.searchCancellation}
    ELSE cancelled

\* `this.searchCancellation?.token.isCancellationRequested`
CancellationRequested(t) ==
    t.searchCancellation # 0 /\ t.searchCancellation \in cancelled

\* the scan loop from file number i on: the index of the next file that
\* searchInFile opens, Len(files) + 1 when the loop ends
RECURSIVE NextToOpen(_, _)
NextToOpen(files, i) ==
    IF i > Len(files) THEN i
    ELSE IF ShouldExclude(files[i]) THEN NextToOpen(files, i + 1)
    ELSE i

\* the values findFiles can resolve with for activation c: the workspace's
\* files, or what the host had found when the activation's token was
\* cancelled
FindFilesResults(c) ==
    IF c \in cancelled
    THEN {SubSeq(WorkspaceFiles, 1, k) : k \in 0..Len(WorkspaceFiles)}
    ELSE {WorkspaceFiles}

\* search(query) up to its first await, as activation c of instance p
TextBegin(c, p, query, caller) ==
    LET t == text[p]
        call == [IdleCall EXCEPT !.inst = p, !.query = query, !.caller = caller]
    IN  IF Trim(query) = <<>>
        THEN /\ text' = [text EXCEPT ![p].searchResults = <<>>]
             /\ calls' = [calls EXCEPT ![c] = [call EXCEPT !.pc = "done"]]
             /\ cancelled' = cancelled
        ELSE IF t.isSearching /\ t.lastQuery = query
        THEN /\ text' = text
             /\ calls' = [calls EXCEPT ![c] =
                            [call EXCEPT !.pc = "done", !.ret = t.searchResults]]
             /\ cancelled' = cancelled
        ELSE /\ cancelled' = IF t.isSearching THEN CancelSearchSources(t)
                              ELSE cancelled
             /\ text' = [text EXCEPT ![p] =
                            [isSearching |-> TRUE, lastQuery |-> query,
                             searchResults |-> <<>>, searchCancellation |-> c]]
             /\ calls' = [calls EXCEPT ![c] =
                            [call EXCEPT !.pc = "findFiles",
                                         !.stale = IF t.isSearching
                                                   THEN t.searchCancellation
                                                   ELSE 0]]

\* the scan loop of activation c from file number i on, the instance's
\* fields being t: suspend in openTextDocument of the next file, or leave
\* the loop, return this.searchResults and run the finally block
ContinueScan(c, t, files, i) ==
    LET p == calls[c].inst
        j == NextToOpen(files, i)
    IN  IF j > Len(files) \/ CancellationRequested(t)
        THEN /\ text' = [text EXCEPT ![p] =
                            [t EXCEPT !.isSearching = FALSE,
                                      !.searchCancellation = 0]]
             /\ calls' = [calls EXCEPT ![c] =
                            [@ EXCEPT !.pc = "done", !.files = files,
                                      !.idx = j, !.ret = t.searchResults]]
        ELSE /\ text' = [text EXCEPT ![p] = t]
             /\ calls' = [calls EXCEPT ![c] =
                            [@ EXCEPT !.pc = "open", !.files = files, !.idx = j]]

\* findFiles resolves
FindFilesReturns(c) ==
    /\ calls[c].pc = "findFiles"
    /\ \E files \in FindFilesResults(c) :
            ContinueScan(c, text[calls[c].inst], files, 1)
    /\ UNCHANGED <<cancelled, nextCall, scoreOf>>

\* findFiles rejects: the catch block returns this.searchResults
FindFilesThrows(c) ==
    /\ calls[c].pc = "findFiles"
    /\ ContinueScan(c, text[calls[c].inst], <<>>, 1)
    /\ UNCHANGED <<cancelled, nextCall, scoreOf>>

\* openTextDocument resolves: the matches of the file are pushed to
\* this.searchResults and the loop goes on
OpenReturns(c) ==
    /\ calls[c].pc = "open"
    /\ LET call == calls[c]
           uri == call.files[call.idx]
           found == FileMatches(c, uri, call.query, Len(FileLines(uri)))
           t == text[call.inst]
       IN  /\ scoreOf' = WithScores(scoreOf,
                             [o \in {found[n].oid : n \in 1..Len(found)} |-> One])
           /\ ContinueScan(c, [t EXCEPT !.searchResults = @ \o found],
                           call.files, call.idx + 1)
    /\ UNCHANGED <<cancelled, nextCall>>

\* openTextDocument rejects: searchInFile logs and the loop goes on
OpenThrows(c) ==
    /\ calls[c].pc = "open"
    /\ ContinueScan(c, text[calls[c].inst], calls[c].files, calls[c].idx + 1)
    /\ UNCHANGED <<cancelled, nextCall, scoreOf>>

\* a caller invokes search(query) on instance p
TextSearch(p, query) ==
    /\ nextCall <= MaxTextCalls
    /\ TextBegin(nextCall, p, query, 0)
    /\ nextCall' = nextCall + 1
    /\ UNCHANGED scoreOf

(***************************************************************************)
(* Index providers: FileSearchProvider, SymbolSearchProvider and           *)
(* DocumentSymbolProvider.  prov[g][n] holds the fields of the instance of *)
(* provider n made by registration number g:                               *)
(*   items        fileItems / symbolItems                                  *)
(*   isRefreshing the guard                                                *)
(*   serial       number of refresh bodies the instance has started        *)
(*   scan         DocumentSymbolProvider: 0 while findFiles is awaited,    *)
(*                else the index of the file whose symbols are awaited     *)
(*   waiter       the activation of refreshIndex or                        *)
(*                updateIndexFromProviders that awaits the refresh, 0 when *)
(*                a listener started it                                    *)
(*   updates      DocumentSymbolProvider: the documents for which an       *)
(*                updateDocumentSymbols awaits the host's symbols, one     *)
(*                copy for each activation that awaits them                *)
(*   bodies       number of activations of refresh() that have passed the  *)
(*                guard and have not reached the finally block             *)
(***************************************************************************)
IndexedNames == {"files", "symbols", "docSymbols"}

NewProvider ==
    [items |-> <<>>, isRefreshing |-> FALSE, serial |-> 0, scan |-> 0,
     waiter |-> 0, updates |-> EmptyBag, bodies |-> 0]

\* A refresh() without the guard.
RefreshNeverDropped(ps) == FALSE

\* `if (this.isRefreshing) { return; }`: refresh() returns at once
RefreshDropped(ps) == ps.isRefreshing

\* refresh() past the guard, up to its first await
StartRefresh(ps, waiter) ==
    [ps EXCEPT !.items = <<>>, !.isRefreshing = TRUE, !.serial = @ + 1,
               !.scan = 0, !.waiter = waiter, !.bodies = @ + 1]

\* FileSearchProvider.refresh after findFiles: one item per file
FileItems(g, serial) ==
    [i \in 1..Len(WorkspaceFiles) |->
        FileItem(<<"files", g, serial, i>>, WorkspaceFiles[i])]

\* SymbolSearchProvider.refresh after the symbol queries: the symbols
\* outside the excluded paths, converted
SymbolItems(g, serial) ==
    LET kept == SelectSeq(WorkspaceSymbols, LAMBDA sym : ~ShouldExclude(sym.uri))
    IN  [i \in 1..Len(kept) |-> SymbolItem(<<"symbols", g, serial, i>>, kept[i])]

\* DocumentSymbolProvider.processSymbols for the symbols of one file, pushed
\* after the `count` items the snapshot holds
DocumentSymbolItems(g, serial, uri, count) ==
    LET syms == DocumentSymbols(uri)
    IN  [i \in 1..Len(syms) |->
            SymbolItem(<<"docSymbols", g, serial, count + i>>, syms[i])]

\* the files a refresh of the DocumentSymbolProvider scans
\* (`files.slice(0, 300)`)
DocSymbolFiles == Slice(WorkspaceFiles, 300)

\* the provider instance after the host call it awaits has resolved
ProviderResumed(n, g, ps) ==
    IF n = "files"
    THEN [ps EXCEPT !.items = FileItems(g, ps.serial), !.isRefreshing = FALSE,
                    !.bodies = @ - 1]
    ELSE IF n = "symbols"
    THEN [ps EXCEPT !.items = SymbolItems(g, ps.serial), !.isRefreshing = FALSE,
                    !.bodies = @ - 1]
    ELSE LET pushed == IF ps.scan = 0 THEN ps.items
                       ELSE ps.items \o DocumentSymbolItems(
                                g, ps.serial, DocSymbolFiles[ps.scan], Len(ps.items))
             next == NextToOpen(DocSymbolFiles, ps.scan + 1)
         IN  IF next > Len(DocSymbolFiles)
             THEN [ps EXCEPT !.items = pushed, !.isRefreshing = FALSE, !.scan = 0,
                             !.bodies = @ - 1]
             ELSE [ps EXCEPT !.items = pushed, !.scan = next]

\* A refresh whose catch block is not followed by a finally block: a
\* rejected enumeration ends the activation with isRefreshing still set.
ProviderFailedNoFinally(n, g, ps) ==
    IF n = "docSymbols" /\ ps.scan > 0
    THEN LET next == NextToOpen(DocSymbolFiles, ps.scan + 1)
         IN  IF next > Len(DocSymbolFiles)
             THEN [ps EXCEPT !.isRefreshing = FALSE, !.scan = 0, !.bodies = @ - 1]
             ELSE [ps EXCEPT !.scan = next]
    ELSE [ps EXCEPT !.scan = 0, !.bodies = @ - 1]

\* the provider instance after the host call it awaits has rejected: the
\* catch block of refresh, or of processFileBatch for one file
ProviderFailed(n, g, ps) ==
    IF n = "docSymbols" /\ ps.scan > 0
    THEN LET next == NextToOpen(DocSymbolFiles, ps.scan + 1)
         IN  IF next > Len(DocSymbolFiles)
             THEN [ps EXCEPT !.isRefreshing = FALSE, !.scan = 0, !.bodies = @ - 1]
             ELSE [ps EXCEPT !.scan = next]
    ELSE [ps EXCEPT !.isRefreshing = FALSE, !.scan = 0, !.bodies = @ - 1]

\* Command items whose ids carry the number of the enumeration.
CommandItemsNumbered(k, g) ==
    LET listed == SelectSeq(HostCommands, IsListedCommand)
    IN  [i \in 1..Len(listed) |->
            [CommandItem(<<"commands", k, g, i>>, listed[i])
                EXCEPT !.id = <<"command", k, listed[i]>>]]

\* CommandSearchProvider.getCommandItems after getCommands, called by
\* activation k on the instance of registration g
CommandItems(k, g) ==
    LET listed == SelectSeq(HostCommands, IsListedCommand)
    IN  [i \in 1..Len(listed) |-> CommandItem(<<"commands", k, g, i>>, listed[i])]

(***************************************************************************)
(* SearchService (core/search-service).                                    *)
(*   config              this.config                                       *)
(*   providers           this.providers: the entries <<name, g>> of the    *)
(*                       Map in insertion order, g being the registration  *)
(*                       that made the instance                            *)
(*   allItems            this.allItems                                     *)
(*   tasks[k]            activation k of refreshIndex,                     *)
(*                       updateIndexFromProviders or search: its place     *)
(*                       (pc), the position of its iterator over           *)
(*                       this.providers (idx), the entry it is handling    *)
(*                       (at), whether provider.refresh() has been awaited *)
(*                       for that entry (refreshed), its deduplicationMap  *)
(*                       (dedup, the values in insertion order), every     *)
(*                       item it has met while merging (seen), and for a   *)
(*                       search its query, the refreshIndex it awaits      *)
(*                       (child) and its activation of the text matcher    *)
(*                       (call)                                            *)
(*   nextTask, nextGen   numbers of the next activation and registration   *)
(*   indexUpdateTimeout  indexUpdateDebouncer.timeout                      *)
(*   events              number of commands, searches and host events      *)
(*                       delivered and of host calls rejected so far       *)
(*   lastMerge           the items met, in order, by the merge that last   *)
(*                       assigned allItems                                 *)
(*   lastBuild           the activation that last assigned allItems (0     *)
(*                       when refreshIndex has cleared allItems since),    *)
(*                       whether it was a refreshIndex or an update,       *)
(*                       the providers whose host call rejected while it   *)
(*                       awaited them, the entries its loop handled, and   *)
(*                       the entries of this.providers when it ended       *)
(*   configTask          the activation of refreshIndex that the last      *)
(*                       change of the configuration started, 0 when none  *)
(*   subscribed          the provider objects whose listeners the host     *)
(*                       holds: a constructor registers them and nothing   *)
(*                       ever releases them                                *)
(*   lastResult          the last value returned by search, with its query *)
(*                       and the sizes of the aggregate, of the text       *)
(*                       results and of the fuzzy results it was made      *)
(*                       from, and the maxResults it read                  *)
(***************************************************************************)
VARIABLES config, providers, prov, allItems, tasks, nextTask, nextGen,
          indexUpdateTimeout, events, lastMerge, lastResult, lastBuild,
          configTask, subscribed

serviceVars ==
    <<config, providers, prov, allItems, tasks, nextTask, nextGen,
      indexUpdateTimeout, events, lastMerge, lastResult, lastBuild, configTask,
      subscribed>>

MaxTasks == 2 * MaxEvents + 1
Queries == {<<" ">>, <<"b">>}

\* the settings (searchEverywhere.indexing.*, performance.maxResults,
\* fuzzySearch.library, activity.*) under which the service runs
Configs ==
    {[includeFiles |-> TRUE, includeSymbols |-> FALSE, includeCommands |-> FALSE,
      includeText |-> TRUE, maxResults |-> 3, library |-> "fuzzysort",
      activityEnabled |-> TRUE, activityWeight |-> <<1, 2>>],
     [includeFiles |-> FALSE, includeSymbols |-> TRUE, includeCommands |-> FALSE,
      includeText |-> FALSE, maxResults |-> 2, library |-> "fuzzaldrin-plus",
      activityEnabled |-> TRUE, activityWeight |-> <<1, 2>>],
     [includeFiles |-> FALSE, includeSymbols |-> FALSE, includeCommands |-> TRUE,
      includeText |-> FALSE, maxResults |-> 0, library |-> "fuzzysort",
      activityEnabled |-> FALSE, activityWeight |-> <<1, 2>>]}

IdleTask ==
    [kind |-> "idle", pc |-> "idle", idx |-> 0, at |-> <<"", 0>>,
     refreshed |-> FALSE, force |-> FALSE, dedup |-> <<>>, seen |-> <<>>,
     query |-> <<>>, child |-> 0, call |-> 0, failed |-> {}, visited |-> {}]

NoBuild ==
    [task |-> 0, kind |-> "idle", failed |-> {}, visited |-> {}, registered |-> {}]

NoResult ==
    [task |-> 0, query |-> <<>>, ret |-> <<>>, indexed |-> 0, text |-> 0,
     fuzzy |-> 0, maxResults |-> 0]

\* registerProviders() for registration g
RegisterProviders(cfg, g) ==
    (IF cfg.includeFiles THEN << <<"files", g>> >> ELSE <<>>)
    \o (IF cfg.includeSymbols THEN << <<"symbols", g>>, <<"docSymbols", g>> >>
        ELSE <<>>)
    \o (IF cfg.includeCommands THEN << <<"commands", g>> >> ELSE <<>>)
    \o (IF cfg.includeText THEN << <<"text", g>> >> ELSE <<>>)

\* The provider objects among `registered` whose constructor registers
\* listeners with the host: FileSearchProvider, SymbolSearchProvider and
\* DocumentSymbolProvider.
Listening(registered) ==
    {registered[i] : i \in {j \in 1..Len(registered) :
                                registered[j][1] \in IndexedNames}}

\* The part of the state the merge loops work on.
Svc ==
    [tasks |-> tasks, prov |-> prov, text |-> text, providers |-> providers,
     nextGen |-> nextGen, allItems |-> allItems, lastMerge |-> lastMerge,
     lastBuild |-> lastBuild, subscribed |-> subscribed]

\* the loop body's merge of a provider's items into deduplicationMap
Merged(k, s, items) ==
    [s EXCEPT !.tasks[k].dedup = MergeItems(@, items),
              !.tasks[k].seen = @ \o items]

\* `this.allItems = Array.from(deduplicationMap.values())`, the end of
\* activation k
FinishBuild(k, s) ==
    [s EXCEPT !.allItems = s.tasks[k].dedup,
              !.lastMerge = s.tasks[k].seen,
              !.lastBuild =
                  [task |-> k, kind |-> s.tasks[k].kind,
                   failed |-> s.tasks[k].failed,
                   visited |-> s.tasks[k].visited,
                   registered |-> {s.providers[i] : i \in 1..Len(s.providers)}],
              !.tasks[k] = IdleTask]

\* The loop `for (const [name, provider] of this.providers.entries())` of
\* activation k, run until its next await that does not resolve at once:
\* NextProvider advances the iterator, HandleProvider runs the loop body for
\* the entry tasks[k].at.
RECURSIVE NextProvider(_, _)
RECURSIVE HandleProvider(_, _)
\* A loop that a failed provider ends.
NextProviderAborting(k, s) ==
    LET t == s.tasks[k]
    IN  IF t.idx >= Len(s.providers) \/ t.failed # {} THEN FinishBuild(k, s)
        ELSE HandleProvider(k,
                 [s EXCEPT !.tasks[k].idx = t.idx + 1,
                           !.tasks[k].at = s.providers[t.idx + 1],
                           !.tasks[k].visited = @ \cup {s.providers[t.idx + 1]},
                           !.tasks[k].refreshed = ~t.force,
                           !.tasks[k].pc = "run"])

NextProvider(k, s) ==
    LET t == s.tasks[k]
    IN  IF t.idx >= Len(s.providers) THEN FinishBuild(k, s)
        ELSE HandleProvider(k,
                 [s EXCEPT !.tasks[k].idx = t.idx + 1,
                           !.tasks[k].at = s.providers[t.idx + 1],
                           !.tasks[k].visited = @ \cup {s.providers[t.idx + 1]},
                           !.tasks[k].refreshed = ~t.force,
                           !.tasks[k].pc = "run"])

HandleProvider(k, s) ==
    LET t == s.tasks[k]
        n == t.at[1]
        g == t.at[2]
    IN  IF n \in IndexedNames
        THEN LET ps == s.prov[g][n]
             IN  IF ~t.refreshed
                 THEN \* `await provider.refresh()`
                      IF RefreshDropped(ps)
                      THEN HandleProvider(k, [s EXCEPT !.tasks[k].refreshed = TRUE])
                      ELSE [s EXCEPT !.prov[g][n] = StartRefresh(ps, k),
                                     !.tasks[k].pc = "awaitRefresh"]
                 ELSE \* `await provider.getItems()`
                      IF ps.items = <<>> /\ ~ps.isRefreshing
                      THEN [s EXCEPT !.prov[g][n] = StartRefresh(ps, k),
                                     !.tasks[k].pc = "awaitGetItems"]
                      ELSE NextProvider(k, Merged(k, s, ps.items))
        ELSE IF n = "commands"
        THEN [s EXCEPT !.tasks[k].refreshed = TRUE,
                       !.tasks[k].pc = "awaitCommands"]
        ELSE LET s1 == IF ~t.refreshed
                       THEN [s EXCEPT !.text[g].searchResults = <<>>]
                       ELSE s
             IN  NextProvider(k, Merged(k, s1, s1.text[g].searchResults))

\* Provider instances that neither this.providers nor a suspended activation
\* refers to are unreachable: their fields are no longer part of the state.
Reachable(s, n, g) ==
    \/ \E i \in 1..Len(s.providers) : s.providers[i] = <<n, g>>
    \/ \E k \in DOMAIN s.tasks : s.tasks[k].at = <<n, g>>

TextLive(map, cs, g) ==
    \/ \E i \in 1..Len(map) : map[i] = <<"text", g>>
    \/ \E c \in DOMAIN cs : cs[c].inst = g /\ cs[c].pc \in {"findFiles", "open"}

Collected(s) ==
    [s EXCEPT
        !.prov = [g \in Gens |-> [n \in IndexedNames |->
                    IF Reachable(s, n, g) THEN s.prov[g][n] ELSE NewProvider]],
        !.text = [g \in Gens |->
                    IF TextLive(s.providers, calls, g) THEN s.text[g]
                    ELSE NewTextProvider]]

\* refreshIndex(force) as activation k, up to its first suspension.  Map
\* iterators are live: after clear() and the new registrations, an iterator
\* that an earlier activation holds goes on with the first new entry.
RefreshIndexWith(cfg, k, force, s) ==
    LET g == s.nextGen
        restarted == [j \in DOMAIN s.tasks |->
                         IF s.tasks[j].kind \in {"refresh", "update"}
                         THEN [s.tasks[j] EXCEPT !.idx = 0]
                         ELSE s.tasks[j]]
    IN  Collected(NextProvider(k,
            [s EXCEPT !.allItems = <<>>,
                      !.lastBuild = NoBuild,
                      !.providers = RegisterProviders(cfg, g),
                      !.subscribed = @ \cup Listening(RegisterProviders(cfg, g)),
                      !.nextGen = g + 1,
                      !.tasks = [restarted EXCEPT ![k] =
                                    [IdleTask EXCEPT !.kind = "refresh",
                                                     !.force = force]]]))

RefreshIndexBegin(k, force, s) == RefreshIndexWith(config, k, force, s)

\* the host call that activation k awaits for provider n has rejected
Failed(k, n, s) ==
    IF k = 0 THEN s ELSE [s EXCEPT !.tasks[k].failed = @ \cup {n}]

\* updateIndexFromProviders() as activation k, up to its first suspension
UpdateIndexBegin(k, s) ==
    Collected(NextProvider(k,
        [s EXCEPT !.tasks[k] = [IdleTask EXCEPT !.kind = "update"]]))

\* the host call awaited by the refresh of provider instance <<n, g>> has
\* settled and left the instance as ps: the activation that awaits the
\* refresh, if any, goes on
ProviderSettled(n, g, ps, s) ==
    LET k == ps.waiter
        s1 == [s EXCEPT !.prov[g][n] =
                  IF ps.isRefreshing THEN ps ELSE [ps EXCEPT !.waiter = 0]]
    IN  Collected(
            IF ps.isRefreshing \/ k = 0 THEN s1
            ELSE IF s.tasks[k].pc = "awaitRefresh"
            THEN HandleProvider(k, [s1 EXCEPT !.tasks[k].refreshed = TRUE,
                                              !.tasks[k].pc = "run"])
            ELSE NextProvider(k, Merged(k, s1, ps.items)))

SetSvc(s) ==
    /\ tasks' = s.tasks
    /\ prov' = s.prov
    /\ text' = s.text
    /\ providers' = s.providers
    /\ nextGen' = s.nextGen
    /\ allItems' = s.allItems
    /\ lastMerge' = s.lastMerge
    /\ lastBuild' = s.lastBuild
    /\ subscribed' = s.subscribed

\* item.score, NoScore when the object has none
ScoreOf(heap, oid) == IF oid \in DOMAIN heap THEN heap[oid] ELSE NoScore

\* the items of a list as the comparator sees them
Ranked(list, heap) ==
    [i \in 1..Len(list) |->
        [f \in (DOMAIN list[i]) \cup {"score"} |->
            IF f = "score" THEN ScoreOf(heap, list[i].oid) ELSE list[i][f]]]

\* boostRecentlyModifiedItems(results): the scores after the loop
RECURSIVE BoostRecentlyModifiedItems(_, _)
BoostRecentlyModifiedItems(results, heap) ==
    IF results = <<>> THEN heap
    ELSE LET item == Head(results)
             boost == Boost(item.type, MapGet(recentlyModifiedFiles, item.uri),
                            now, config.activityWeight)
             score == ScoreOf(heap, item.oid)
         IN  BoostRecentlyModifiedItems(Tail(results),
                 IF boost # NoScore /\ score # NoScore
                 THEN WithScores(heap, item.oid :> BoostedScore(score, boost))
                 ELSE heap)

\* A search whose scorer leaves alone the score an item object already has.
SearchOutcomesKeepingScores(query, textResults) ==
    IF Trim(query) = <<>>
    THEN {[ret |-> Slice(sorted, config.maxResults), heap |-> scoreOf,
           fuzzy |-> <<>>] :
             sorted \in SortResultsByPriority(Ranked(allItems, scoreOf))}
    ELSE UNION {
             LET scored == WithScores(out.scores, scoreOf)
                 results == textResults \o out.found
                 boosted == IF config.activityEnabled /\ recentlyModifiedFiles # <<>>
                            THEN BoostRecentlyModifiedItems(results, scored)
                            ELSE scored
             IN  {[ret |-> Slice(sorted, config.maxResults), heap |-> boosted,
                   fuzzy |-> out.found] :
                     sorted \in SortResultsByPriority(Ranked(results, boosted))} :
             out \in FuzzySearch(config.library, allItems, query,
                                 config.maxResults)}

\* search(query) from `if (!query.trim())` on, textResults being the text
\* matcher's results: the lists it can return, with the scores it leaves on
\* the item objects and the scorer's results
SearchOutcomes(query, textResults) ==
    IF Trim(query) = <<>>
    THEN {[ret |-> Slice(sorted, config.maxResults), heap |-> scoreOf,
           fuzzy |-> <<>>] :
             sorted \in SortResultsByPriority(Ranked(allItems, scoreOf))}
    ELSE UNION {
             LET scored == WithScores(scoreOf, out.scores)
                 results == textResults \o out.found
                 boosted == IF config.activityEnabled /\ recentlyModifiedFiles # <<>>
                            THEN BoostRecentlyModifiedItems(results, scored)
                            ELSE scored
             IN  {[ret |-> Slice(sorted, config.maxResults), heap |-> boosted,
                   fuzzy |-> out.found] :
                     sorted \in SortResultsByPriority(Ranked(results, boosted))} :
             out \in FuzzySearch(config.library, allItems, query,
                                 config.maxResults)}

\* the end of activation k of search
FinishSearch(k, query, textResults) ==
    \E o \in SearchOutcomes(query, textResults) :
        /\ scoreOf' = o.heap
        /\ lastResult' = [task |-> k, query |-> query, ret |-> o.ret,
                          indexed |-> Len(allItems),
                          text |-> Len(textResults),
                          fuzzy |-> Len(o.fuzzy),
                          maxResults |-> config.maxResults]

\* `this.providers.get('text')`: the registration of the instance, 0 when
\* there is none
TextInstance ==
    LET found == {i \in 1..Len(providers) : providers[i][1] = "text"}
    IN  IF found = {} THEN 0 ELSE providers[CHOOSE i \in found : TRUE][2]

\* search(query) after `if (this.allItems.length === 0) await
\* this.refreshIndex()`, as activation k with c its activation of the text
\* matcher
SearchBody(k, query, c) ==
    /\ IF config.includeText /\ Trim(query) # <<>> /\ TextInstance # 0
       THEN /\ TextBegin(c, TextInstance, query, k)
            /\ tasks' = [tasks EXCEPT ![k] =
                           [IdleTask EXCEPT !.kind = "search", !.pc = "awaitText",
                                            !.query = query, !.call = c]]
            /\ UNCHANGED <<scoreOf, lastResult>>
       ELSE /\ FinishSearch(k, query, <<>>)
            /\ tasks' = [tasks EXCEPT ![k] = IdleTask]
            /\ UNCHANGED <<text, calls, cancelled>>
    /\ UNCHANGED <<prov, providers, nextGen, subscribed, allItems, lastMerge,
                   lastBuild>>

InitService ==
    /\ config \in Configs
    /\ LET s == RefreshIndexBegin(1, FALSE,
                    [tasks |-> [k \in 1..MaxTasks |-> IdleTask],
                     prov |-> [g \in Gens |-> [n \in IndexedNames |-> NewProvider]],
                     text |-> [g \in Gens |-> NewTextProvider],
                     providers |-> <<>>,
                     nextGen |-> 1,
                     allItems |-> <<>>,
                     lastMerge |-> <<>>,
                     lastBuild |-> NoBuild,
                     subscribed |-> {}])
       IN  /\ tasks = s.tasks
           /\ prov = s.prov
           /\ providers = s.providers
           /\ nextGen = s.nextGen
           /\ allItems = s.allItems
           /\ lastMerge = s.lastMerge
           /\ lastBuild = s.lastBuild
           /\ subscribed = s.subscribed
    /\ nextTask = 2
    /\ configTask = 0
    /\ indexUpdateTimeout = NoTimeout
    /\ events = 0
    /\ lastResult = NoResult

\* the service is not constructed
InitServiceIdle ==
    /\ config = [includeFiles |-> FALSE, includeSymbols |-> FALSE,
                 includeCommands |-> FALSE, includeText |-> FALSE,
                 maxResults |-> 0, library |-> "fuzzysort",
                 activityEnabled |-> FALSE, activityWeight |-> <<1, 2>>]
    /\ tasks = [k \in 1..MaxTasks |-> IdleTask]
    /\ prov = [g \in Gens |-> [n \in IndexedNames |-> NewProvider]]
    /\ providers = <<>>
    /\ nextGen = 1
    /\ allItems = <<>>
    /\ lastMerge = <<>>
    /\ lastBuild = NoBuild
    /\ subscribed = {}
    /\ configTask = 0
    /\ nextTask = 1
    /\ indexUpdateTimeout = NoTimeout
    /\ events = 0
    /\ lastResult = NoResult

\* the command searchEverywhere.rebuildIndex: refreshIndex(true)
RebuildIndex ==
    /\ events < MaxEvents
    /\ events' = events + 1
    /\ nextTask <= MaxTasks
    /\ nextGen <= MaxGen
    /\ SetSvc(RefreshIndexBegin(nextTask, TRUE, Svc))
    /\ nextTask' = nextTask + 1
    /\ UNCHANGED <<config, configTask, indexUpdateTimeout, lastResult,
                   calls, cancelled, nextCall, scoreOf>>

\* onDidChangeConfiguration for a change of searchEverywhere.indexing:
\* `this.config = getConfiguration()`, then refreshIndex()
ChangeConfiguration(cfg) ==
    /\ cfg # config
    /\ events < MaxEvents
    /\ events' = events + 1
    /\ nextTask <= MaxTasks
    /\ nextGen <= MaxGen
    /\ config' = cfg
    /\ SetSvc(RefreshIndexWith(cfg, nextTask, FALSE, Svc))
    /\ configTask' = nextTask
    /\ nextTask' = nextTask + 1
    /\ UNCHANGED <<indexUpdateTimeout, lastResult, calls, cancelled, nextCall,
                   scoreOf>>

\* SearchService.search(query), up to its first suspension
Search(query) ==
    LET k == nextTask
        \* a number is kept for the activation of the text matcher that the
        \* search makes if includeText is on when it gets there
        wantsText == Trim(query) # <<>>
    IN  /\ events < MaxEvents
        /\ events' = events + 1
        /\ nextTask <= MaxTasks
        /\ wantsText => nextCall <= MaxTextCalls
        /\ nextCall' = IF wantsText THEN nextCall + 1 ELSE nextCall
        /\ IF allItems = <<>>
           THEN /\ nextTask + 1 <= MaxTasks
                /\ nextGen <= MaxGen
                /\ SetSvc(RefreshIndexBegin(k + 1, FALSE,
                       [Svc EXCEPT !.tasks[k] =
                           [IdleTask EXCEPT !.kind = "search", !.pc = "awaitIndex",
                                            !.query = query, !.child = k + 1,
                                            !.call = IF wantsText THEN nextCall
                                                     ELSE 0]]))
                /\ nextTask' = nextTask + 2
                /\ UNCHANGED <<calls, cancelled, scoreOf, lastResult>>
           ELSE /\ nextTask' = nextTask + 1
                /\ SearchBody(k, query, IF wantsText THEN nextCall ELSE 0)
        /\ UNCHANGED <<config, configTask, indexUpdateTimeout>>

\* the refreshIndex() that activation k of search awaits has returned
SearchAfterIndex(k) ==
    /\ tasks[k].pc = "awaitIndex"
    /\ tasks[tasks[k].child].kind = "idle"
    /\ SearchBody(k, tasks[k].query, tasks[k].call)
    /\ UNCHANGED <<config, configTask, nextTask, nextCall, indexUpdateTimeout, events>>

\* textProvider.search(query) has returned to activation k of search
SearchAfterText(k) ==
    /\ tasks[k].pc = "awaitText"
    /\ calls[tasks[k].call].pc = "done"
    /\ FinishSearch(k, tasks[k].query, calls[tasks[k].call].ret)
    /\ tasks' = [tasks EXCEPT ![k] = IdleTask]
    /\ calls' = [calls EXCEPT ![tasks[k].call] = IdleCall]
    /\ text' = [g \in Gens |->
                   IF TextLive(providers, calls', g) THEN text[g]
                   ELSE NewTextProvider]
    /\ UNCHANGED <<config, configTask, providers, prov, allItems, nextTask, nextGen,
                   subscribed,
                   indexUpdateTimeout, events, lastMerge, lastBuild, cancelled, nextCall>>

\* DocumentSymbolProvider.updateDocumentSymbols(document) up to its await,
\* on an instance with fields ps
DocumentSaved(ps, uri) ==
    IF ShouldExclude(uri) THEN ps
    ELSE [ps EXCEPT !.items = SelectSeq(@, LAMBDA item : item.uri # uri),
                    !.serial = @ + 1,
                    !.updates = @ (+) SetToBag({uri})]

\* onDidSaveTextDocument for a file of the workspace: the service schedules
\* the index update and tracks the activity, and every reachable
\* DocumentSymbolProvider starts its incremental update.  (The
\* SymbolSearchProvider schedules a refresh: see ListenerRefresh.)
SaveDocument(uri) ==
    /\ events < MaxEvents
    /\ events' = events + 1
    /\ indexUpdateTimeout' = DebouncerDebounce(indexUpdateTimeout, "update")
    /\ activityTimeout' = DebouncerDebounce(activityTimeout, uri)
    /\ prov' = [g \in Gens |-> [n \in IndexedNames |->
                   IF n = "docSymbols" /\ Reachable(Svc, n, g)
                   THEN DocumentSaved(prov[g][n], uri)
                   ELSE prov[g][n]]]
    /\ UNCHANGED <<config, configTask, providers, allItems, tasks, nextTask, nextGen,
                   subscribed,
                   lastMerge, lastBuild, lastResult, textVars, heapVars,
                   recentlyModifiedFiles, now, nextUri, retouches>>

\* onDidCloseTextDocument: the service schedules the index update
CloseDocument ==
    /\ events < MaxEvents
    /\ events' = events + 1
    /\ indexUpdateTimeout' = DebouncerDebounce(indexUpdateTimeout, "update")
    /\ UNCHANGED <<config, configTask, providers, prov, allItems, tasks, nextTask, nextGen,
                   subscribed,
                   lastMerge, lastBuild, lastResult, textVars, heapVars, recencyVars>>

\* the index update timer (3500 ms) fires: updateIndexFromProviders().  The
\* activity timer (500 ms) that the same or an earlier event has set fires
\* before it.
IndexUpdateTimerFires ==
    /\ indexUpdateTimeout # NoTimeout
    /\ activityTimeout = NoTimeout
    /\ nextTask <= MaxTasks
    /\ indexUpdateTimeout' = DebouncerFired(indexUpdateTimeout)
    /\ SetSvc(UpdateIndexBegin(nextTask, Svc))
    /\ nextTask' = nextTask + 1
    /\ UNCHANGED <<config, configTask, events, lastResult, calls, cancelled, nextCall,
                   heapVars, recencyVars>>

\* the host's symbols for a saved document arrive at
\* updateDocumentSymbols
DocumentSymbolsArrive(g, uri) ==
    /\ BagIn(uri, prov[g]["docSymbols"].updates)
    /\ LET ps == prov[g]["docSymbols"]
           pushed == DocumentSymbolItems(g, ps.serial + 1, uri, Len(ps.items))
       IN  prov' = [prov EXCEPT ![g]["docSymbols"] =
                       [ps EXCEPT !.items = @ \o pushed,
                                  !.serial = @ + 1,
                                  !.updates = @ (-) SetToBag({uri})]]
    /\ UNCHANGED <<config, configTask, providers, allItems, tasks, nextTask, nextGen,
                   subscribed,
                   indexUpdateTimeout, events, lastMerge, lastBuild, lastResult,
                   textVars, heapVars, recencyVars>>

\* the host call of updateDocumentSymbols rejects
DocumentSymbolsFail(g, uri) ==
    /\ BagIn(uri, prov[g]["docSymbols"].updates)
    /\ prov' = [prov EXCEPT ![g]["docSymbols"].updates = @ (-) SetToBag({uri})]
    /\ UNCHANGED <<config, configTask, providers, allItems, tasks, nextTask, nextGen,
                   subscribed,
                   indexUpdateTimeout, events, lastMerge, lastBuild, lastResult,
                   textVars, heapVars, recencyVars>>

\* a change listener of a registered provider calls refresh(): files
\* created, deleted or renamed (FileSearchProvider), the refresh timer or a
\* change of the workspace folders (symbol providers)
ListenerRefresh(g, n) ==
    /\ events < MaxEvents
    /\ \E i \in 1..Len(providers) : providers[i] = <<n, g>>
    /\ n \in IndexedNames
    /\ ~RefreshDropped(prov[g][n])
    /\ events' = events + 1
    /\ prov' = [prov EXCEPT ![g][n] = StartRefresh(@, 0)]
    /\ UNCHANGED <<config, configTask, providers, allItems, tasks, nextTask, nextGen,
                   subscribed,
                   indexUpdateTimeout, lastMerge, lastBuild, lastResult,
                   textVars, heapVars, recencyVars>>

\* the host call that the refresh of provider instance <<n, g>> awaits
\* resolves
ProviderResolves(g, n) ==
    /\ prov[g][n].isRefreshing
    /\ SetSvc(ProviderSettled(n, g, ProviderResumed(n, g, prov[g][n]), Svc))
    /\ UNCHANGED <<config, configTask, nextTask, indexUpdateTimeout, events, lastResult,
                   calls, cancelled, nextCall, heapVars, recencyVars>>

\* the same host call rejects
ProviderRejects(g, n) ==
    /\ prov[g][n].isRefreshing
    /\ events < MaxEvents
    /\ events' = events + 1
    /\ SetSvc(ProviderSettled(n, g, ProviderFailed(n, g, prov[g][n]),
                               Failed(prov[g][n].waiter, n, Svc)))
    /\ UNCHANGED <<config, configTask, nextTask, indexUpdateTimeout, lastResult,
                   calls, cancelled, nextCall, heapVars, recencyVars>>

\* getCommands resolves for activation k
CommandsResolve(k) ==
    /\ tasks[k].pc = "awaitCommands"
    /\ SetSvc(Collected(NextProvider(k,
           Merged(k, Svc, CommandItems(k, tasks[k].at[2])))))
    /\ UNCHANGED <<config, configTask, nextTask, indexUpdateTimeout, events, lastResult,
                   calls, cancelled, nextCall, heapVars, recencyVars>>

\* getCommands rejects for activation k: getCommandItems returns no item
CommandsReject(k) ==
    /\ tasks[k].pc = "awaitCommands"
    /\ events < MaxEvents
    /\ events' = events + 1
    /\ SetSvc(Collected(NextProvider(k,
           Merged(k, Failed(k, "commands", Svc), <<>>))))
    /\ UNCHANGED <<config, configTask, nextTask, indexUpdateTimeout, lastResult,
                   calls, cancelled, nextCall, heapVars, recencyVars>>

\* findFiles or openTextDocument rejects for activation c of the text
\* matcher while the service runs
TextCallThrows(c) ==
    /\ events < MaxEvents
    /\ events' = events + 1
    /\ FindFilesThrows(c) \/ OpenThrows(c)
    /\ UNCHANGED <<config, configTask, providers, prov, allItems, tasks, nextTask, nextGen,
                   subscribed,
                   indexUpdateTimeout, lastMerge, lastBuild, lastResult, recencyVars>>

(***************************************************************************)
(* A provider on its own: the instance of registration 1 of one provider,  *)
(* whose getItems() and refresh() are called in any order while the host   *)
(* calls of earlier activations are pending.                               *)
(*   subject        the provider                                           *)
(*   getWaiting[n]  the activation of getItems() of provider n that is     *)
(*                  suspended (in `await this.refresh()`, or in            *)
(*                  getCommands for the command provider): whether there   *)
(*                  is one, its number, and whether the provider had       *)
(*                  completed a refresh and had none in flight when it was *)
(*                  called                                                 *)
(*   snap[n]        the ids of the last two snapshots getItems() of n      *)
(*                  returned (prev, last), whether a change event reached  *)
(*                  the provider since the last return (changed), whether  *)
(*                  both were called on a refreshed provider with no       *)
(*                  change event in between (comparable), and whether no   *)
(*                  host call failed for either (clean)                    *)
(*   log[n]         done: a refresh body of n has completed; failed: a     *)
(*                  host call of n has rejected since its last refresh     *)
(*                  began; dropped: a refresh() of n has returned at the   *)
(*                  guard                                                  *)
(*   budget         numbers of getItems() calls, change events and         *)
(*                  rejected host calls so far                             *)
(***************************************************************************)
VARIABLES subject, getWaiting, snap, log, budget

providerVars == <<subject, getWaiting, snap, log, budget>>

MaxGets == 4
MaxChanges == 2
MaxFailures == 1

ProviderNames == IndexedNames \cup {"commands"}

NotWaiting == [waiting |-> FALSE, call |-> 0, refreshed |-> FALSE]

NoSnapshot ==
    [returned |-> FALSE, prev |-> {}, last |-> {}, lastRefreshed |-> FALSE,
     lastClean |-> FALSE, changed |-> FALSE, comparable |-> FALSE,
     clean |-> FALSE]

NoLog == [done |-> FALSE, failed |-> FALSE, dropped |-> FALSE]

InitProviders ==
    /\ subject \in ProviderNames
    /\ getWaiting = [n \in ProviderNames |-> NotWaiting]
    /\ snap = [n \in ProviderNames |-> NoSnapshot]
    /\ log = [n \in ProviderNames |-> NoLog]
    /\ budget = [gets |-> 0, changes |-> 0, failures |-> 0]

\* no provider is under observation
InitProvidersIdle ==
    /\ subject = "files"
    /\ getWaiting = [n \in ProviderNames |-> NotWaiting]
    /\ snap = [n \in ProviderNames |-> NoSnapshot]
    /\ log = [n \in ProviderNames |-> NoLog]
    /\ budget = [gets |-> 0, changes |-> 0, failures |-> 0]

IdsOf(items) == {items[i].id : i \in 1..Len(items)}

\* the provider has completed a refresh and neither a refresh nor an
\* incremental update of it is in flight
AlreadyRefreshed(n) ==
    \/ n = "commands"
    \/ /\ log[n].done
       /\ ~prov[1][n].isRefreshing
       /\ prov[1][n].updates = EmptyBag

\* getItems() returns `items`: the record of the snapshots of the provider
Returned(sn, items, refreshed, ok) ==
    [returned |-> TRUE,
     prev |-> sn.last,
     last |-> IdsOf(items),
     lastRefreshed |-> refreshed,
     lastClean |-> ok,
     changed |-> FALSE,
     comparable |-> sn.returned /\ sn.lastRefreshed /\ refreshed /\ ~sn.changed,
     clean |-> sn.lastClean /\ ok]

\* getItems() of FileSearchProvider, SymbolSearchProvider or
\* DocumentSymbolProvider: refresh() is awaited when the snapshot is empty
\* and no refresh is in flight, else the snapshot is returned at once
GetItems(n) ==
    /\ n \in IndexedNames
    /\ n = subject
    /\ budget.gets < MaxGets
    /\ budget' = [budget EXCEPT !.gets = @ + 1]
    /\ LET ps == prov[1][n]
       IN  IF ps.items = <<>> /\ ~ps.isRefreshing
           THEN /\ prov' = [prov EXCEPT ![1][n] = StartRefresh(ps, 0)]
                /\ getWaiting' = [getWaiting EXCEPT ![n] =
                                     [waiting |-> TRUE, call |-> budget.gets + 1,
                                      refreshed |-> AlreadyRefreshed(n)]]
                /\ log' = [log EXCEPT ![n].failed = FALSE]
                /\ UNCHANGED <<subject, snap>>
           ELSE /\ snap' = [snap EXCEPT ![n] =
                               Returned(@, ps.items, AlreadyRefreshed(n),
                                        ~log[n].failed)]
                /\ UNCHANGED <<subject, prov, getWaiting, log>>

\* getItems() of CommandSearchProvider up to `await getCommands(true)`
GetCommandItems ==
    /\ subject = "commands"
    /\ budget.gets < MaxGets
    /\ ~getWaiting["commands"].waiting
    /\ budget' = [budget EXCEPT !.gets = @ + 1]
    /\ getWaiting' = [getWaiting EXCEPT !["commands"] =
                         [waiting |-> TRUE, call |-> budget.gets + 1,
                          refreshed |-> TRUE]]
    /\ UNCHANGED <<subject, prov, snap, log>>

\* getCommands resolves: getItems() returns the command items
GetCommandsResolves ==
    /\ getWaiting["commands"].waiting
    /\ snap' = [snap EXCEPT !["commands"] =
                   Returned(@, CommandItems(getWaiting["commands"].call, 1),
                            TRUE, TRUE)]
    /\ getWaiting' = [getWaiting EXCEPT !["commands"] = NotWaiting]
    /\ UNCHANGED <<subject, prov, log, budget>>

\* getCommands rejects: the catch block, getItems() returns no item
GetCommandsRejects ==
    /\ getWaiting["commands"].waiting
    /\ budget.failures < MaxFailures
    /\ budget' = [budget EXCEPT !.failures = @ + 1]
    /\ snap' = [snap EXCEPT !["commands"] = Returned(@, <<>>, TRUE, FALSE)]
    /\ getWaiting' = [getWaiting EXCEPT !["commands"] = NotWaiting]
    /\ UNCHANGED <<subject, prov, log>>

\* a change listener of provider n calls refresh(): files created, deleted
\* or renamed, the debounced refresh after a save or a close, a change of
\* the workspace folders
RefreshCall(n) ==
    /\ n \in IndexedNames
    /\ n = subject
    /\ budget.changes < MaxChanges
    /\ budget' = [budget EXCEPT !.changes = @ + 1]
    /\ snap' = [snap EXCEPT ![n].changed = TRUE]
    /\ IF RefreshDropped(prov[1][n])
       THEN /\ log' = [log EXCEPT ![n].dropped = TRUE]
            /\ UNCHANGED prov
       ELSE /\ prov' = [prov EXCEPT ![1][n] = StartRefresh(@, 0)]
            /\ log' = [log EXCEPT ![n].failed = FALSE]
    /\ UNCHANGED <<subject, getWaiting>>

\* onDidSaveTextDocument reaches the DocumentSymbolProvider:
\* updateDocumentSymbols(document) up to its await
ProviderDocumentSaved(uri) ==
    /\ subject = "docSymbols"
    /\ budget.changes < MaxChanges
    /\ budget' = [budget EXCEPT !.changes = @ + 1]
    /\ prov' = [prov EXCEPT ![1]["docSymbols"] = DocumentSaved(@, uri)]
    /\ snap' = [snap EXCEPT !["docSymbols"].changed = TRUE]
    /\ UNCHANGED <<subject, getWaiting, log>>

\* the host call that refresh() of provider n awaits has settled and left
\* the instance as ps: when the refresh body has ended, the getItems() that
\* awaits it returns the snapshot
RefreshSettled(n, ps, failed) ==
    /\ prov' = [prov EXCEPT ![1][n] = ps]
    /\ log' = [log EXCEPT ![n].done = @ \/ ~ps.isRefreshing,
                          ![n].failed = @ \/ failed]
    /\ IF ~ps.isRefreshing /\ getWaiting[n].waiting
       THEN /\ snap' = [snap EXCEPT ![n] =
                           Returned(@, ps.items,
                                    getWaiting[n].refreshed /\ ps.updates = EmptyBag,
                                    ~log'[n].failed)]
            /\ getWaiting' = [getWaiting EXCEPT ![n] = NotWaiting]
       ELSE UNCHANGED <<snap, getWaiting>>

\* findFiles or the symbol query of refresh() resolves
RefreshResolves(n) ==
    /\ n \in IndexedNames
    /\ prov[1][n].bodies > 0
    /\ RefreshSettled(n, ProviderResumed(n, 1, prov[1][n]), FALSE)
    /\ UNCHANGED <<subject, budget>>

\* the same host call rejects
RefreshRejects(n) ==
    /\ n \in IndexedNames
    /\ prov[1][n].bodies > 0
    /\ budget.failures < MaxFailures
    /\ budget' = [budget EXCEPT !.failures = @ + 1]
    /\ RefreshSettled(n, ProviderFailed(n, 1, prov[1][n]), TRUE)
    /\ UNCHANGED subject

(***************************************************************************)
(* C8: the recency map never holds more than 20 entries; when recording an *)
(* access makes it exceed 20 entries, exactly one entry is removed and it  *)
(* has the least timestamp of all entries.                                 *)
(***************************************************************************)
C8_Recorded ==
    LET set == MapSet(recentlyModifiedFiles, activityTimeout[1], now')
    IN  IF Len(set) > 20
        THEN \E i \in 1..Len(set) :
                /\ \A j \in 1..Len(set) : set[i][2] <= set[j][2]
                /\ recentlyModifiedFiles' =
                       SubSeq(set, 1, i - 1) \o SubSeq(set, i + 1, Len(set))
        ELSE recentlyModifiedFiles' = set

C8_RecencyBound ==
    [][/\ Len(recentlyModifiedFiles') <= 20
       /\ (activityTimeout # NoTimeout /\ activityTimeout' = NoTimeout)
              => C8_Recorded]_recencyVars

\* Twenty entries are left after more than twenty documents were recorded,
\* and the entry inserted first is not the one of least timestamp.
C8_Witness ==
    /\ Len(recentlyModifiedFiles) = 20
    /\ Cardinality({u \in 1..(nextUri - 1) : ~MapHas(recentlyModifiedFiles, u)})
          > retouches
    /\ \E j \in 2..20 : recentlyModifiedFiles[j][2] < recentlyModifiedFiles[1][2]
    /\ activityTimeout = NoTimeout

(***************************************************************************)
(* C4 (as stated): in the returned list, for every pair of items that both *)
(* carry numeric scores, the higher score comes first when the scores      *)
(* differ by more than 0.1 and the higher priority (default 50) comes      *)
(* first when they are within 0.1; for lists of any length.                *)
(***************************************************************************)
C4_PairOrdered(a, b) ==
    (a.score # NoScore /\ b.score # NoScore) =>
        IF RLess(<<1, 10>>, RAbs(RSub(a.score, b.score)))
        THEN RLess(b.score, a.score)
        ELSE (IF a.priority = 0 THEN 50 ELSE a.priority)
                >= (IF b.priority = 0 THEN 50 ELSE b.priority)

C4_Original ==
    sortDone =>
        \A i, j \in 1..Len(sortOut) : i < j => C4_PairOrdered(sortOut[i], sortOut[j])

(***************************************************************************)
(* C4 (amended): the pairwise order holds in every returned list whose     *)
(* unsorted results the comparator orders consistently (transitively),     *)
(* which includes every list of at most two results.                       *)
(***************************************************************************)
C4_Amended ==
    (sortDone /\ (Len(sortIn) <= 2 \/ ConsistentComparator(sortIn))) =>
        \A i, j \in 1..Len(sortOut) : i < j => C4_PairOrdered(sortOut[i], sortOut[j])

\* Three scored results, reordered by the sort: a decisive score gap and a
\* priority tie-break inside the band.
C4_Witness ==
    /\ sortDone
    /\ Len(sortIn) = 3
    /\ Len(sortOut) = 3
    /\ ConsistentComparator(sortIn)
    /\ \A i \in 1..3 : sortIn[i].score # NoScore
    /\ sortOut # sortIn
    /\ sortOut[1].score # sortOut[2].score
    /\ sortOut[1].priority # sortOut[2].priority
    /\ ~ScoresDiffer(sortOut[1].score, sortOut[2].score)
    /\ ScoresDiffer(sortOut[2].score, sortOut[3].score)

(***************************************************************************)
(* C6: when a text search for one query is in flight and a search for a    *)
(* different query arrives, the result returned for the new query holds    *)
(* only lines that match the new query, none produced by the scan of the   *)
(* old one.                                                                *)
(***************************************************************************)
\* the activations that found a scan of another query in flight and have
\* returned
C6_Superseding ==
    {c \in 1..MaxTextCalls : calls[c].pc = "done" /\ calls[c].stale # 0}

C6_Original ==
    \A c \in C6_Superseding :
        \A n \in 1..Len(calls[c].ret) :
            /\ Includes(ToLowerCase(calls[c].ret[n].label),
                        ToLowerCase(calls[c].query))
            /\ calls[c].ret[n].oid[2] # calls[c].stale

(***************************************************************************)
(* C1: in every reachable state, under any interleaving of refreshIndex,   *)
(* updateIndexFromProviders and search, allItems holds no two items with   *)
(* the same deduplication key.                                             *)
(***************************************************************************)
C1_NoDuplicateKeys ==
    \A i, j \in 1..Len(allItems) :
        i # j => GetDeduplicationKey(allItems[i]) # GetDeduplicationKey(allItems[j])

\* The aggregate was assigned by a merge that met more items than it kept,
\* and it is read while another activation is suspended.
C1_Witness ==
    /\ allItems # <<>>
    /\ Len(lastMerge) > Len(allItems)
    /\ \E k \in 1..MaxTasks : tasks[k].kind # "idle"

(***************************************************************************)
(* C2: when the aggregate is built by merging the providers' snapshots in  *)
(* registration order, the item kept for a deduplication key is the first  *)
(* item with that key that the merge met; every later one is discarded.    *)
(***************************************************************************)
C2_FirstSeenWins ==
    allItems # <<>> =>
        /\ \A i \in 1..Len(allItems) :
               \E n \in 1..Len(lastMerge) :
                   /\ lastMerge[n] = allItems[i]
                   /\ \A m \in 1..(n - 1) :
                          GetDeduplicationKey(lastMerge[m])
                              # GetDeduplicationKey(allItems[i])
        /\ \A n \in 1..Len(lastMerge) :
               \E i \in 1..Len(allItems) :
                   GetDeduplicationKey(allItems[i]) = GetDeduplicationKey(lastMerge[n])

\* The merge met two different items with one key, from two providers, and
\* the aggregate holds the one it met first.
C2_Witness ==
    /\ allItems # <<>>
    /\ \E m, n \in 1..Len(lastMerge) :
           /\ m < n
           /\ GetDeduplicationKey(lastMerge[m]) = GetDeduplicationKey(lastMerge[n])
           /\ lastMerge[m].label # lastMerge[n].label
           /\ lastMerge[m].oid[1] # lastMerge[n].oid[1]
           /\ \E i \in 1..Len(allItems) : allItems[i] = lastMerge[m]

(***************************************************************************)
(* C3: whatever searches, document saves and closes, index updates and     *)
(* full refreshes came before, the list that search(query) returns holds   *)
(* no two items with the same id.                                          *)
(***************************************************************************)
C3_Original ==
    \A i, j \in 1..Len(lastResult.ret) :
        i # j => lastResult.ret[i].id # lastResult.ret[j].id

(***************************************************************************)
(* C5: search with an empty or whitespace-only query returns the aggregate *)
(* ordered by priority only and capped at maxResults: of two returned      *)
(* items the one of higher priority comes first, whatever fuzzy scores     *)
(* earlier searches have computed.                                         *)
(***************************************************************************)
C5_Original ==
    (lastResult.task # 0 /\ Trim(lastResult.query) = <<>>) =>
        /\ Len(lastResult.ret) =
               (IF lastResult.maxResults < lastResult.indexed THEN lastResult.maxResults
                ELSE lastResult.indexed)
        /\ \A i, j \in 1..Len(lastResult.ret) :
               i < j =>
                   (IF lastResult.ret[i].priority = 0 THEN 50
                    ELSE lastResult.ret[i].priority)
                       >= (IF lastResult.ret[j].priority = 0 THEN 50
                           ELSE lastResult.ret[j].priority)

(***************************************************************************)
(* C7: every call of search returns at most maxResults items, for empty    *)
(* and non-empty queries alike, also when text matches and fuzzy results   *)
(* are concatenated.                                                       *)
(***************************************************************************)
C7_AtMostMaxResults ==
    Len(lastResult.ret) <= lastResult.maxResults

\* A search whose text matches and fuzzy results together exceeded
\* maxResults has returned exactly maxResults items.
C7_Witness ==
    /\ lastResult.task # 0
    /\ lastResult.text > 0
    /\ lastResult.fuzzy > 0
    /\ lastResult.text + lastResult.fuzzy > lastResult.maxResults
    /\ Len(lastResult.ret) = lastResult.maxResults

(***************************************************************************)
(* C13: when debounce(fn) is called n >= 1 times, every call after the     *)
(* first arriving before the delay has elapsed since the previous call,    *)
(* exactly one callback executes for the burst: the one passed to the last *)
(* call, a full delay after that call; no callback of an earlier call of   *)
(* the burst executes.  (A burst whose timer clear() cancels executes      *)
(* none.)                                                                  *)
(***************************************************************************)
\* call j is the last of its burst: no later call came before the delay had
\* elapsed
C13_LastOfBurst(j) ==
    \/ j = Len(dCalls)
    \/ dCalls[j + 1].at - dCalls[j].at >= Delay
    \/ dCalls[j].cleared

C13_OneCallbackPerBurst ==
    /\ \A i \in 1..Len(dRan) :
           LET j == dRan[i].fn
           IN  /\ C13_LastOfBurst(j)
               /\ ~dCalls[j].cleared
               /\ dRan[i].at = dCalls[j].at + Delay
               /\ \A k \in 1..Len(dRan) : k # i => dRan[k].fn # j
    /\ \A j \in 1..Len(dCalls) :
           (C13_LastOfBurst(j) /\ ~dCalls[j].cleared
              /\ dClock >= dCalls[j].at + Delay)
               => \E i \in 1..Len(dRan) : dRan[i].fn = j

\* A burst of two calls at different times has executed the callback of the
\* second call, and nothing else has run.
C13_Witness ==
    /\ Len(dCalls) >= 2
    /\ dCalls[2].at > dCalls[1].at
    /\ dCalls[2].at - dCalls[1].at < Delay
    /\ ~dCalls[1].cleared
    /\ dRan # <<>>
    /\ dRan[1].fn = 2

C12_OneBody ==
    \A n \in IndexedNames :
        /\ prov[1][n].bodies <= 1
        /\ prov[1][n].isRefreshing <=> prov[1][n].bodies = 1

C12_DroppedLeavesProvider ==
    \A n \in IndexedNames :
        (~log[n].dropped /\ log'[n].dropped) => prov'[1][n] = prov[1][n]

C12_Serialized ==
    [][C12_OneBody' /\ C12_DroppedLeavesProvider]_<<prov, log>>

\* A refresh was requested while another was in flight and was dropped; the
\* body in flight is still suspended.
C12_Witness ==
    \E n \in IndexedNames :
        /\ log[n].dropped
        /\ prov[1][n].isRefreshing
        /\ prov[1][n].bodies = 1

(***************************************************************************)
(* C14: when a host call of one provider fails during refreshIndex or      *)
(* updateIndexFromProviders, the operation still runs to completion: its   *)
(* loop handles every registered provider, and the aggregate it assigns    *)
(* holds, deduplicated, the items of every other provider.                 *)
(***************************************************************************)
C14_FailureIsolated ==
    lastBuild.failed # {} =>
        /\ lastBuild.registered \subseteq lastBuild.visited
        /\ \A n \in 1..Len(lastMerge) :
               lastMerge[n].oid[1] \notin lastBuild.failed =>
                   \E i \in 1..Len(allItems) :
                       GetDeduplicationKey(allItems[i])
                           = GetDeduplicationKey(lastMerge[n])

\* The symbol query of the SymbolSearchProvider was rejected, and the
\* activation went on to the DocumentSymbolProvider, whose items are in the
\* aggregate.
C14_Witness ==
    /\ lastBuild.failed = {"symbols"}
    /\ Cardinality(lastBuild.registered) >= 2
    /\ \E i \in 1..Len(allItems) : allItems[i].oid[1] = "docSymbols"

(***************************************************************************)
(* C15: after the configuration turns a corpus slice off and the refresh   *)
(* triggered by that change has completed, the provider map holds no       *)
(* provider for that slice and the aggregate holds no item contributed by  *)
(* that slice, in every interleaving with refreshes that were in flight    *)
(* when the configuration changed.                                         *)
(***************************************************************************)
\* the slice of provider n is on under cfg
C15_SliceOn(cfg, n) ==
    IF n = "files" THEN cfg.includeFiles
    ELSE IF n \in {"symbols", "docSymbols"} THEN cfg.includeSymbols
    ELSE IF n = "commands" THEN cfg.includeCommands
    ELSE cfg.includeText

C15_Original ==
    (configTask # 0 /\ tasks[configTask].kind = "idle") =>
        /\ \A i \in 1..Len(providers) : C15_SliceOn(config, providers[i][1])
        /\ \A i \in 1..Len(allItems) : C15_SliceOn(config, allItems[i].oid[1])

(***************************************************************************)
(* C16: after any refresh of the File provider, no item of its snapshot    *)
(* has a path that matches a pattern of the exclusion set the refresh was  *)
(* made with, built-in or user-supplied, matching being that of the        *)
(* exclusion filter (shouldExclude).                                       *)
(***************************************************************************)
C16_Original ==
    (exRefreshes > 0 /\ ~exRefreshing) =>
        \A i \in 1..Len(exFileItems) : ~ShouldExcludePath(exFileItems[i], exRead)

(***************************************************************************)
(* C17: once a text scan has been cancelled by the arrival of a differing  *)
(* query, it finishes at most the file it was scanning at that moment and  *)
(* then stops: it opens no further file.                                   *)
(***************************************************************************)
\* activation c, whose token source has been cancelled, ends the scan of a
\* file and opens a later file in this step
C17_OpensAfterCancel(c) ==
    /\ c \in cancelled
    /\ calls[c].pc = "open"
    /\ calls'[c].pc = "open"
    /\ calls'[c].idx > calls[c].idx

C17_Original ==
    [][\A c \in 1..MaxTextCalls : ~C17_OpensAfterCancel(c)]_textVars

(***************************************************************************)
(* C18: while a text scan for query Q is in flight, a second search(Q)     *)
(* starts no additional scan; at most one scan for Q is running at any     *)
(* time.                                                                   *)
(***************************************************************************)
\* activation c is a scan in flight whose token source has not been
\* cancelled
C18_Scanning(c) ==
    calls[c].pc \in {"findFiles", "open"} /\ c \notin cancelled

C18_Original ==
    \A c, d \in 1..MaxTextCalls :
        (/\ c # d
         /\ C18_Scanning(c)
         /\ C18_Scanning(d)
         /\ calls[c].inst = calls[d].inst)
            => calls[c].query # calls[d].query

(***************************************************************************)
(* C19 (as stated): for a Symbol or Class item whose uri has a recorded    *)
(* recency timestamp and which carries a numeric score, the boost step     *)
(* multiplies the score by 1 + max(0, 1 - age/1h) * weight * 0.5, for      *)
(* Class items exactly as for Symbol items.                                *)
(***************************************************************************)
C19_Original ==
    (/\ bApplied
     /\ bType \in {TSymbol, TClass}
     /\ bTimestamp # NoTime
     /\ bScore # NoScore)
        => LET left == IF OneHour - bAge > 0 THEN OneHour - bAge ELSE 0
           IN  bOut[1] * bScore[2] * (2 * OneHour * bWeight[2])
                   = bOut[2] * bScore[1]
                         * (2 * OneHour * bWeight[2] + left * bWeight[1])

(***************************************************************************)
(* C20: the boost step leaves unchanged every item that has no recorded    *)
(* recency for its uri, every item without a numeric score, and every      *)
(* Command and TextMatch item; it runs only when activity tracking is      *)
(* enabled and the recency map is not empty.                               *)
(***************************************************************************)
C20_BoostFrame ==
    bSearched =>
        /\ (\/ bTimestamp = NoTime
            \/ bScore = NoScore
            \/ bType \in {TCommand, TTextMatch}) => bOut = bScore
        /\ bApplied => (bEnabled /\ RecentSize > 0)
        /\ ~(bEnabled /\ RecentSize > 0) => bOut = bScore

\* The step has run on a TextMatch item with a positive score whose file
\* was touched a moment ago, and has left the score as it was.
C20_Witness ==
    /\ bSearched
    /\ bApplied
    /\ bType = TTextMatch
    /\ bTimestamp # NoTime
    /\ bAge < OneHour
    /\ RLess(Zero, bWeight)
    /\ RLess(Zero, bScore)
    /\ bOut = bScore

\* The step was skipped for a File item with a positive score because
\* activity tracking is off, although the recency map holds its uri.
C20_WitnessSkipped ==
    /\ bSearched
    /\ ~bApplied
    /\ ~bEnabled
    /\ bType = TFile
    /\ bTimestamp # NoTime
    /\ RLess(Zero, bScore)
    /\ bOut = bScore

(***************************************************************************)
(* C21: for a non-empty query with text indexing enabled, in the list      *)
(* returned by search every TextMatch item precedes every fuzzy-scored     *)
(* (File, Symbol, Class, Command) item.                                    *)
(***************************************************************************)
C21_Original ==
    (lastResult.task # 0 /\ Trim(lastResult.query) # <<>>) =>
        \A i, j \in 1..Len(lastResult.ret) :
            (lastResult.ret[i].type # TTextMatch
             /\ lastResult.ret[j].type = TTextMatch) => j < i

(***************************************************************************)
(* C22: the aggregated index never contains an item of type TextMatch,     *)
(* after any sequence of searches, save and close events, index updates    *)
(* and full refreshes.                                                     *)
(***************************************************************************)
C22_Original ==
    \A i \in 1..Len(allItems) : allItems[i].type # TTextMatch

\* C23: whenever the debounced incremental aggregate update reads a
\* provider's snapshot, no refresh of that provider is in flight, so the
\* update never takes a snapshot that a refresh has emptied and not yet
\* repopulated.  An update activation visits a provider in the step that
\* adds it to the activation's `visited` set; the provider's state before
\* that step is the one getItems() answers from.
C23_IsUpdate(k) ==
    \/ tasks[k].kind = "update"
    \/ /\ tasks[k].kind = "idle"
       /\ nextTask = k /\ nextTask' = k + 1
       /\ indexUpdateTimeout # NoTimeout /\ indexUpdateTimeout' = NoTimeout

C23_VisitedBefore(k) ==
    IF tasks[k].kind = "update" THEN tasks[k].visited ELSE {}

C23_VisitedAfter(k) ==
    IF tasks'[k].kind = "update" THEN tasks'[k].visited
    ELSE IF lastBuild'.task = k /\ lastBuild.task # k THEN lastBuild'.visited
    ELSE C23_VisitedBefore(k)

C23_ReadsInFlight(k) ==
    /\ C23_IsUpdate(k)
    /\ \E p \in C23_VisitedAfter(k) \ C23_VisitedBefore(k) :
           /\ p[1] \in IndexedNames
           /\ prov[p[2]][p[1]].isRefreshing
           /\ prov[p[2]][p[1]].waiter = 0

C23_Original ==
    [][\A k \in DOMAIN tasks : ~C23_ReadsInFlight(k)]_serviceVars

\* C24: at any time at most one provider object per slice of the corpus
\* (files, workspace symbols, document symbols) is subscribed to the host's
\* change notifications, however many times refreshIndex has replaced the
\* providers.
C24_Original ==
    \A n \in IndexedNames :
        Cardinality({g \in Gens : <<n, g>> \in subscribed}) <= 1

\* C25: one refresh of the DocumentSymbolProvider requests document symbols
\* for at most 300 files in total, whatever the number of workspace folders
\* and of matching files.
C25_Original == dsRequests <= MaxFilesToProcess

\* C26: when an incremental update of the DocumentSymbolProvider for a saved
\* document u completes, the snapshot holds exactly the newly discovered
\* symbols of u, the items of every other document are the ones it held
\* before, in the same order, and no refresh was started.
C26_Completes(u) ==
    /\ CopiesIn(u, prov'[1]["docSymbols"].updates)
           < CopiesIn(u, prov[1]["docSymbols"].updates)
    /\ prov'[1]["docSymbols"].serial # prov[1]["docSymbols"].serial

C26_ItemsOf(ps, u) == SelectSeq(ps.items, LAMBDA item : item.uri = u)

C26_ItemsNotOf(ps, u) == SelectSeq(ps.items, LAMBDA item : item.uri # u)

C26_Original ==
    [][\A u \in {WorkspaceFiles[i] : i \in 1..Len(WorkspaceFiles)} :
          C26_Completes(u) =>
              /\ Len(C26_ItemsOf(prov'[1]["docSymbols"], u)) = Len(DocumentSymbols(u))
              /\ \A i \in 1..Len(DocumentSymbols(u)) :
                     C26_ItemsOf(prov'[1]["docSymbols"], u)[i].label
                         = DocumentSymbols(u)[i].name
              /\ C26_ItemsNotOf(prov'[1]["docSymbols"], u)
                     = C26_ItemsNotOf(prov[1]["docSymbols"], u)
              /\ prov'[1]["docSymbols"].isRefreshing
                     = prov[1]["docSymbols"].isRefreshing
              /\ prov'[1]["docSymbols"].bodies = prov[1]["docSymbols"].bodies]_prov

\* C27: when the host's file enumeration has thrown during a refresh of a
\* provider and the refresh has returned, the provider's snapshot is empty.
\* Checked on the DocumentSymbolProvider, whose refresh enumerates the files
\* of one workspace folder after the other.
C27_Original ==
    (dsThrew /\ dsPc = "idle" /\ ~dsRefreshing) => dsItems = 0

\* C28: when the merge that built the aggregate met two symbol items of
\* two providers that have the same type (the group of their kind), URI,
\* start line and start column and the same name, also when the label of
\* one of them carries a trailing "()" that the other lacks, the two items
\* have the same deduplication key and exactly one item of the aggregate
\* has that key.
C28_SameName(a, b) ==
    \/ a = b
    \/ a = b \o <<"(", ")">>
    \/ b = a \o <<"(", ")">>

C28_SameSymbol(x, y) ==
    /\ x.type \in {TSymbol, TClass}
    /\ y.type = x.type
    /\ x.uri = y.uri /\ x.line = y.line /\ x.col = y.col
    /\ C28_SameName(x.label, y.label)
    /\ x.oid[1] # y.oid[1]

C28_OneOfTwo ==
    allItems # <<>> =>
        \A m, n \in 1..Len(lastMerge) :
            C28_SameSymbol(lastMerge[m], lastMerge[n]) =>
                /\ GetDeduplicationKey(lastMerge[m]) = GetDeduplicationKey(lastMerge[n])
                /\ Cardinality({i \in 1..Len(allItems) :
                       GetDeduplicationKey(allItems[i])
                           = GetDeduplicationKey(lastMerge[m])}) = 1

C28_Witness ==
    /\ allItems # <<>>
    /\ \E m, n \in 1..Len(lastMerge) :
           /\ C28_SameSymbol(lastMerge[m], lastMerge[n])
           /\ lastMerge[n].label = lastMerge[m].label \o <<"(", ")">>
           /\ Cardinality({i \in 1..Len(allItems) :
                  allItems[i].uri = lastMerge[m].uri
                  /\ allItems[i].type = lastMerge[m].type}) = 1

\* C29: under every user configuration the sequence of exclusion patterns is
\* the built-in sequence followed by the user's patterns in their order,
\* and every path of the workspace that the filter excludes under the
\* built-in patterns alone it excludes under the configuration as well.
C29_DefaultsThenUser ==
    /\ Len(GetExclusionPatterns(exUser)) = Len(DefaultPatterns) + Len(exUser)
    /\ \A i \in 1..Len(DefaultPatterns) :
           GetExclusionPatterns(exUser)[i] = DefaultPatterns[i]
    /\ \A i \in 1..Len(exUser) :
           GetExclusionPatterns(exUser)[Len(DefaultPatterns) + i] = exUser[i]
    /\ \A i \in 1..Len(ExWorkspace) :
           (\E j \in 1..Len(DefaultPatterns) :
                Minimatch(ExWorkspace[i], DefaultPatterns[j]))
               => ShouldExcludePath(ExWorkspace[i], exUser)

C29_Witness ==
    /\ exChanges > 0
    /\ Len(exUser) = 2
    /\ \E i, j \in 1..Len(ExWorkspace) :
           /\ \E k \in 1..Len(DefaultPatterns) :
                  Minimatch(ExWorkspace[i], DefaultPatterns[k])
           /\ ShouldExcludePath(ExWorkspace[i], exUser)
           /\ ~ShouldExcludePath(ExWorkspace[j], <<>>)
           /\ ShouldExcludePath(ExWorkspace[j], exUser)

\* C30: after a call of a fuzzy adapter the returned list has at most
\* `limit` items and each of them is one of the objects of the input list;
\* when the query was empty or blank it is the first `limit` objects of the
\* input in their order and the score of no object has been written.
C30_AdapterContract ==
    fzCalls > 0 =>
        /\ Len(fzFound) <= fzLimit
        /\ \A i \in 1..Len(fzFound) :
               \E j \in 1..Len(fzItems) : fzFound[i] = fzItems[j]
        /\ Trim(fzQuery) = <<>> =>
               /\ Len(fzFound) = (IF Len(fzItems) < fzLimit THEN Len(fzItems)
                                  ELSE fzLimit)
               /\ \A i \in 1..Len(fzFound) : fzFound[i] = fzItems[i]
               /\ scoreOf = fzBefore

C30_Witness ==
    /\ fzCalls = 2
    /\ fzQuery = <<" ">>
    /\ fzLimit > 0
    /\ Len(fzItems) > fzLimit
    /\ Len(fzFound) = fzLimit
    /\ \E o \in DOMAIN scoreOf : o = fzItems[Len(fzItems)].oid

C30_WitnessRanked ==
    /\ fzCalls > 0
    /\ Trim(fzQuery) # <<>>
    /\ Len(fzFound) = fzLimit
    /\ DOMAIN scoreOf # {fzFound[i].oid : i \in 1..Len(fzFound)}
    /\ fzFound # <<>>
    /\ fzFound[1] # fzItems[1]

\* C31: for a symbol of any kind the SymbolSearchProvider and the
\* DocumentSymbolProvider give their item the same priority, which is 100
\* for class, interface, enum and struct, 90 for method, function and
\* constructor, 70 for property, field and enum member, 60 for a constant,
\* 40 for a variable and 50 for every other kind; the priority of a text
\* match, 30, is lower than that of every symbol or class item.
C31_Table(kind) ==
    CASE kind \in {"Class", "Interface", "Enum", "Struct"} -> 100
      [] kind \in {"Method", "Function", "Constructor"} -> 90
      [] kind \in {"Property", "Field", "EnumMember"} -> 70
      [] kind = "Constant" -> 60
      [] kind = "Variable" -> 40
      [] OTHER -> 50

C31_SamePriority ==
    /\ pkWorkspace # 0 => pkWorkspace = C31_Table(pkKind)
    /\ pkDocument # 0 => pkDocument = C31_Table(pkKind)
    /\ (pkWorkspace # 0 /\ pkDocument # 0) => pkWorkspace = pkDocument
    /\ pkText # 0 =>
           /\ pkText = 30
           /\ pkWorkspace # 0 => pkText < pkWorkspace
           /\ pkDocument # 0 => pkText < pkDocument

C31_Witness ==
    /\ pkKind = "Variable"
    /\ pkWorkspace # 0
    /\ pkDocument # 0
    /\ pkText # 0

\* C32: for each provider with an isRefreshing guard, whenever isRefreshing
\* is set it is eventually reset, whether the refresh completes or the host
\* call rejects: the guard is never left set for ever.
C32_RefreshEnds ==
    \A n \in IndexedNames :
        prov[1][n].isRefreshing ~> ~prov[1][n].isRefreshing

C32_Witness ==
    \E n \in IndexedNames :
        /\ log[n].failed
        /\ log[n].done
        /\ ~prov[1][n].isRefreshing
        /\ prov[1][n].bodies = 0

\* C33: when two activations of refreshIndex have overlapped and no
\* refresh or update is running any more, the aggregate is the one the
\* activation that started last has assigned: an activation that started
\* earlier does not assign an aggregate of other items over it.
C33_Ids(items) == {items[i].id : i \in 1..Len(items)}

C33_OlderOverwrites ==
    /\ lastBuild.kind = "refresh"
    /\ lastBuild'.kind = "refresh"
    /\ lastBuild'.task < lastBuild.task
    /\ C33_Ids(allItems') # C33_Ids(allItems)
    /\ \A k \in DOMAIN tasks : tasks'[k].kind \notin {"refresh", "update"}

C33_Original == [][~C33_OlderOverwrites]_serviceVars

\* C34: when no refresh and no incremental update of the
\* DocumentSymbolProvider is in flight, no two items of its snapshot have
\* the same id.
C34_Original ==
    (/\ ~prov[1]["docSymbols"].isRefreshing
     /\ prov[1]["docSymbols"].bodies = 0
     /\ prov[1]["docSymbols"].updates = EmptyBag) =>
        \A i, j \in 1..Len(prov[1]["docSymbols"].items) :
            prov[1]["docSymbols"].items[i].id = prov[1]["docSymbols"].items[j].id
                => i = j

\* C35: once a create, delete or rename notification has made the registered
\* File provider refresh while an index is in place, the aggregate eventually
\* holds the items of the provider's new snapshot, with no further event.
C35_ListenerRefreshing ==
    \E g \in Gens :
        /\ \E i \in 1..Len(providers) : providers[i] = <<"files", g>>
        /\ prov[g]["files"].isRefreshing
        /\ prov[g]["files"].waiter = 0
        /\ allItems # <<>>

C35_SnapshotInAggregate ==
    \A g \in Gens :
        (\E i \in 1..Len(providers) : providers[i] = <<"files", g>>) =>
            /\ ~prov[g]["files"].isRefreshing
            /\ \A i \in 1..Len(prov[g]["files"].items) :
                   \E j \in 1..Len(allItems) :
                       allItems[j] = prov[g]["files"].items[i]

C35_Original == C35_ListenerRefreshing ~> C35_SnapshotInAggregate

\* C36: activity tracking has one timer for all resources.  An event only
\* replaces the pending callback by the one for its own resource and writes
\* nothing; when the timer fires after a burst, one entry is written, for the
\* resource of the last event, and no other entry is written or refreshed.
C36_EventOnlyReschedules ==
    /\ (nextUri' # nextUri) => activityTimeout' = <<nextUri>>
    /\ (activityTimeout' # NoTimeout) =>
           /\ Len(activityTimeout') = 1
           /\ recentlyModifiedFiles' = recentlyModifiedFiles

C36_FireWritesLast ==
    (activityTimeout # NoTimeout /\ activityTimeout' = NoTimeout) =>
        /\ MapGet(recentlyModifiedFiles', activityTimeout[1]) = now'
        /\ \A u \in MapKeys(recentlyModifiedFiles') \ {activityTimeout[1]} :
               MapGet(recentlyModifiedFiles', u) = MapGet(recentlyModifiedFiles, u)

C36_OneEntryPerBurst ==
    [][C36_EventOnlyReschedules /\ C36_FireWritesLast]_recencyVars

\* Documents 1, 2 and 3 were touched in one burst and the timer has fired:
\* the map holds document 3 alone.
C36_Witness ==
    /\ activityTimeout = NoTimeout
    /\ nextUri = 4
    /\ MapKeys(recentlyModifiedFiles) = {3}

\* C37: the recency boost does not compound.  When a search for a query that
\* the scorer scores ends, the score on every File or Symbol item it returns
\* is the scorer's score of the item for that query, multiplied once by the
\* item's boost factor when the boost step runs and the item's file has a
\* recorded timestamp, whatever earlier searches left on the object.
C37_Expected(item) ==
    LET boost == IF config.activityEnabled /\ recentlyModifiedFiles # <<>>
                 THEN Boost(item.type, MapGet(recentlyModifiedFiles, item.uri),
                            now, config.activityWeight)
                 ELSE NoScore
    IN  BoostedScore(AdapterScore(config.library, item, lastResult'.query), boost)

C37_SearchEnds ==
    \/ lastResult' # lastResult
    \/ \E i \in 1..Len(lastResult'.ret) :
           /\ lastResult'.ret[i].type \in {TFile, TSymbol}
           /\ ScoreOf(scoreOf', lastResult'.ret[i].oid)
                  # ScoreOf(scoreOf, lastResult'.ret[i].oid)

C38_OnePendingTimer == Cardinality(dTimers) <= 1

C38_ClearedNeverRuns ==
    \A j \in 1..Len(dCalls) :
        dCalls[j].cleared => \A i \in 1..Len(dRan) : dRan[i].fn # j

C38_Debouncer == C38_OnePendingTimer /\ C38_ClearedNeverRuns

\* The second debounce came while the timer of the first was pending, clear()
\* cancelled it, and the clock has passed the time it was due: nothing ran.
C38_Witness ==
    /\ Len(dCalls) = 2
    /\ dCalls[2].at - dCalls[1].at < Delay
    /\ dCalls[2].cleared
    /\ dClock > dCalls[2].at + Delay
    /\ dRan = <<>>
    /\ dTimers = {}

(***************************************************************************)
(* Search dialog: SearchUI (ui/search-ui).  The service is seen from the   *)
(* dialog: a call of search(query) is in flight until its promise settles, *)
(* and calls settle in any order (a blank query is answered from the       *)
(* aggregate, any other awaits the text matcher's host calls).             *)
(*   uiVisible        the quick pick is shown                              *)
(*   uiLastQuery      this.lastQuery                                       *)
(*   uiActiveFilter   this.activeFilter                                    *)
(*   uiSearchDebounce the pending timer of this.searchDebounce: <<>> or    *)
(*                    <<value>>, value being what its closure captured     *)
(*   uiBusy           quickPick.busy                                       *)
(*   uiItems          what quickPick.items was made from                   *)
(*   uiShown          the number of the performSearch that assigned        *)
(*                    quickPick.items, 0 when none has                     *)
(*   uiError          the placeholder reads 'Error performing search'      *)
(*   uiSearches       the activations of performSearch suspended at        *)
(*                    `await this.searchService.search(query)`             *)
(*   uiIssued         the queries of the activations of performSearch so   *)
(*                    far, in order                                        *)
(***************************************************************************)
VARIABLES uiVisible, uiLastQuery, uiActiveFilter, uiSearchDebounce, uiBusy,
          uiItems, uiShown, uiError, uiSearches, uiIssued

uiVars ==
    <<uiVisible, uiLastQuery, uiActiveFilter, uiSearchDebounce, uiBusy, uiItems,
      uiShown, uiError, uiSearches, uiIssued>>

MaxUiSearches == 3
UiQueries == {<<>>, <<"b">>, <<"b", "c">>}

\* enum FilterCategory
FilterCategories == {"all", "classes", "files", "symbols", "actions", "text"}

\* what search(query) resolves to, as the dialog uses it: one item of each
\* type, marked with the query it answers
UiSearchResults(query) ==
    <<[type |-> TFile, query |-> query], [type |-> TClass, query |-> query],
      [type |-> TSymbol, query |-> query], [type |-> TCommand, query |-> query],
      [type |-> TTextMatch, query |-> query]>>

\* applyCategoryFilter(items)
ApplyCategoryFilter(items, activeFilter) ==
    IF activeFilter = "all" THEN items
    ELSE SelectSeq(items, LAMBDA item :
             IF activeFilter = "classes" THEN item.type = TClass
             ELSE IF activeFilter = "files" THEN item.type = TFile
             ELSE IF activeFilter = "symbols" THEN item.type = TSymbol
             ELSE IF activeFilter = "actions" THEN item.type = TCommand
             ELSE TRUE)

\* the dialog after its constructor
InitUi ==
    /\ uiVisible = FALSE
    /\ uiLastQuery = <<>>
    /\ uiActiveFilter = "all"
    /\ uiSearchDebounce = NoTimeout
    /\ uiBusy = FALSE
    /\ uiItems = <<>>
    /\ uiShown = 0
    /\ uiError = FALSE
    /\ uiSearches = {}
    /\ uiIssued = <<>>

\* performSearch(query), up to its await
PerformSearch(query) ==
    /\ Len(uiIssued) < MaxUiSearches
    /\ uiBusy' = TRUE
    /\ uiIssued' = Append(uiIssued, query)
    /\ uiSearches' = uiSearches \cup {[serial |-> Len(uiIssued) + 1, query |-> query]}

\* show()
UiShow ==
    /\ ~uiVisible
    /\ uiVisible' = TRUE
    /\ uiActiveFilter' = "all"
    /\ uiLastQuery' = <<>>
    /\ PerformSearch(<<>>)
    /\ UNCHANGED <<uiSearchDebounce, uiItems, uiShown, uiError>>

\* onDidChangeValue(value); the host reports a value that differs from the
\* one in the box, which show() and this handler keep in lastQuery
OnDidChangeValue(value) ==
    /\ uiVisible
    /\ value # uiLastQuery
    /\ IF value = uiLastQuery
       THEN /\ uiSearchDebounce' = NoTimeout
            /\ UNCHANGED <<uiLastQuery, uiBusy>>
       ELSE /\ uiLastQuery' = value
            /\ uiBusy' = TRUE
            /\ uiSearchDebounce' = <<value>>
    /\ UNCHANGED <<uiVisible, uiActiveFilter, uiItems, uiShown, uiError, uiSearches,
                   uiIssued>>

\* the 50 ms timer fires: performSearch(value)
SearchDebounceFires ==
    /\ uiSearchDebounce # NoTimeout
    /\ uiSearchDebounce' = NoTimeout
    /\ PerformSearch(uiSearchDebounce[1])
    /\ UNCHANGED <<uiVisible, uiLastQuery, uiActiveFilter, uiItems, uiShown, uiError>>

\* onDidTriggerButton for the button of a category
OnDidTriggerButton(category) ==
    /\ uiVisible
    /\ uiActiveFilter' = category
    /\ uiSearchDebounce' = NoTimeout
    /\ PerformSearch(uiLastQuery)
    /\ UNCHANGED <<uiVisible, uiLastQuery, uiItems, uiShown, uiError>>

\* search(query) resolves for activation s of performSearch: the results are
\* filtered by the filter that is active now and assigned to quickPick.items
UiSearchResolves(s) ==
    /\ s \in uiSearches
    /\ uiItems' = ApplyCategoryFilter(UiSearchResults(s.query), uiActiveFilter)
    /\ uiShown' = s.serial
    /\ uiBusy' = FALSE
    /\ uiSearches' = uiSearches \ {s}
    /\ UNCHANGED <<uiVisible, uiLastQuery, uiActiveFilter, uiSearchDebounce, uiError,
                   uiIssued>>

\* search(query) rejects: the catch block and the finally block
UiSearchRejects(s) ==
    /\ s \in uiSearches
    /\ uiError' = TRUE
    /\ uiBusy' = FALSE
    /\ uiSearches' = uiSearches \ {s}
    /\ UNCHANGED <<uiVisible, uiLastQuery, uiActiveFilter, uiSearchDebounce, uiItems,
                   uiShown, uiIssued>>

\* C39: once every started search has settled and no search is scheduled,
\* the dialog displays the results of the query issued last.
C39_Quiet ==
    /\ uiSearches = {}
    /\ uiSearchDebounce = NoTimeout
    /\ ~uiError
    /\ uiIssued # <<>>

C39_Original ==
    C39_Quiet =>
        /\ uiShown # 0
        /\ uiIssued[uiShown] = uiIssued[Len(uiIssued)]

(***************************************************************************)
(* Specifications.                                                         *)
(***************************************************************************)
vars ==
    <<boostVars, recencyVars, sortVars, heapVars, textVars, serviceVars,
      providerVars, debouncerVars, exclusionVars, scanVars, fuzzyVars,
                   priorityVars,
                   uiVars>>

NextBoost ==
    /\ \E d \in BoostSteps : BoostItem(d)
    /\ UNCHANGED <<recencyVars, sortVars, heapVars, textVars, serviceVars,
                   providerVars, debouncerVars, exclusionVars, scanVars, fuzzyVars,
                   priorityVars,
                   uiVars>>

BoostSpecInit ==
    InitBoost /\ InitRecency /\ InitSortIdle /\ InitHeap /\ InitText
    /\ InitServiceIdle /\ InitProvidersIdle /\ InitDebouncer /\ InitExclusionIdle
    /\ InitScanIdle /\ InitFuzzyIdle /\ InitPriorityIdle /\ InitUi

SpecBoost == BoostSpecInit /\ [][NextBoost]_vars

NextRecency ==
    /\ \/ TrackNewDocument
       \/ TrackKnownDocument
       \/ ActivityTimerFires(1)
    /\ UNCHANGED <<boostVars, sortVars, heapVars, textVars, serviceVars,
                   providerVars, debouncerVars, exclusionVars, scanVars, fuzzyVars,
                   priorityVars,
                   uiVars>>

RecencySpecInit ==
    InitBoostIdle /\ InitRecency /\ InitSortIdle /\ InitHeap /\ InitText
    /\ InitServiceIdle /\ InitProvidersIdle /\ InitDebouncer /\ InitExclusionIdle
    /\ InitScanIdle /\ InitFuzzyIdle /\ InitPriorityIdle /\ InitUi

SpecRecency == RecencySpecInit /\ [][NextRecency]_vars

NextSort ==
    /\ SortAndSlice
    /\ UNCHANGED <<boostVars, recencyVars, heapVars, textVars, serviceVars,
                   providerVars, debouncerVars, exclusionVars, scanVars, fuzzyVars,
                   priorityVars,
                   uiVars>>

SortSpecInit ==
    InitBoostIdle /\ InitRecency /\ InitSort /\ InitHeap /\ InitText
    /\ InitServiceIdle /\ InitProvidersIdle /\ InitDebouncer /\ InitExclusionIdle
    /\ InitScanIdle /\ InitFuzzyIdle /\ InitPriorityIdle /\ InitUi

SpecSort == SortSpecInit /\ [][NextSort]_vars

\* The text matcher alone: searches arrive while earlier scans are suspended
\* in findFiles or openTextDocument.
NextText ==
    /\ \/ \E q \in TextQueries : TextSearch(1, q)
       \/ \E c \in 1..MaxTextCalls : FindFilesReturns(c)
       \/ \E c \in 1..MaxTextCalls : FindFilesThrows(c)
       \/ \E c \in 1..MaxTextCalls : OpenReturns(c)
       \/ \E c \in 1..MaxTextCalls : OpenThrows(c)
    /\ UNCHANGED <<boostVars, recencyVars, sortVars, serviceVars, providerVars,
                   debouncerVars, exclusionVars, scanVars, fuzzyVars,
                   priorityVars,
                   uiVars>>

TextSpecInit ==
    InitBoostIdle /\ InitRecency /\ InitSortIdle /\ InitHeap /\ InitText
    /\ InitServiceIdle /\ InitProvidersIdle /\ InitDebouncer /\ InitExclusionIdle
    /\ InitScanIdle /\ InitFuzzyIdle /\ InitPriorityIdle /\ InitUi

SpecText == TextSpecInit /\ [][NextText]_vars

\* A Debouncer alone: debounce and clear are called as time passes.
NextDebouncer ==
    /\ \/ DebounceCall
       \/ ClearCall
       \/ TimePasses
       \/ TimerFires
    /\ UNCHANGED <<boostVars, recencyVars, sortVars, heapVars, textVars,
                   serviceVars, providerVars, exclusionVars, scanVars, fuzzyVars,
                   priorityVars,
                   uiVars>>

DebouncerSpecInit ==
    InitBoostIdle /\ InitRecency /\ InitSortIdle /\ InitHeap /\ InitText
    /\ InitServiceIdle /\ InitProvidersIdle /\ InitDebouncer /\ InitExclusionIdle
    /\ InitScanIdle /\ InitFuzzyIdle /\ InitPriorityIdle /\ InitUi

SpecDebouncer == DebouncerSpecInit /\ [][NextDebouncer]_vars

\* The providers alone: getItems() and refresh() are called, documents are
\* saved and host calls settle, in any order.
serviceRest ==
    <<config, providers, allItems, tasks, nextTask, nextGen,
      indexUpdateTimeout, events, lastMerge, lastResult, lastBuild, configTask,
      subscribed>>

ProvidersIdle ==
    UNCHANGED <<boostVars, recencyVars, sortVars, heapVars, textVars, serviceRest,
                debouncerVars, exclusionVars, scanVars, fuzzyVars,
                   priorityVars,
                   uiVars>>

NextProviders ==
    \/ \E n \in IndexedNames : GetItems(n) /\ ProvidersIdle
    \/ GetCommandItems /\ ProvidersIdle
    \/ GetCommandsResolves /\ ProvidersIdle
    \/ GetCommandsRejects /\ ProvidersIdle
    \/ \E n \in IndexedNames : RefreshCall(n) /\ ProvidersIdle
    \/ \E uri \in {WorkspaceFiles[i] : i \in 1..Len(WorkspaceFiles)} :
           ProviderDocumentSaved(uri) /\ ProvidersIdle
    \/ \E uri \in 1..Len(WorkspaceFiles) :
           /\ DocumentSymbolsArrive(1, uri)
           /\ UNCHANGED <<boostVars, sortVars, providerVars, debouncerVars,
                          exclusionVars, scanVars, fuzzyVars,
                   priorityVars,
                   uiVars>>
    \/ \E uri \in 1..Len(WorkspaceFiles) :
           /\ DocumentSymbolsFail(1, uri)
           /\ UNCHANGED <<boostVars, sortVars, providerVars, debouncerVars,
                          exclusionVars, scanVars, fuzzyVars,
                   priorityVars,
                   uiVars>>
    \/ \E n \in IndexedNames : RefreshResolves(n) /\ ProvidersIdle
    \/ \E n \in IndexedNames : RefreshRejects(n) /\ ProvidersIdle

ProvidersSpecInit ==
    InitBoostIdle /\ InitRecency /\ InitSortIdle /\ InitHeap /\ InitText
    /\ InitServiceIdle /\ InitProviders /\ InitDebouncer /\ InitExclusionIdle
    /\ InitScanIdle /\ InitFuzzyIdle /\ InitPriorityIdle /\ InitUi

SpecProviders == ProvidersSpecInit /\ [][NextProviders]_vars

\* The search service with its providers, from the end of the constructor:
\* searches, index rebuilds, host events and the settling of the host calls
\* that activations await, in any order.
OthersIdle ==
    UNCHANGED <<boostVars, sortVars, providerVars, debouncerVars, exclusionVars,
                scanVars, fuzzyVars,
                   priorityVars,
                   uiVars>>

Next ==
    \/ RebuildIndex /\ UNCHANGED recencyVars /\ OthersIdle
    \/ \E cfg \in Configs :
           ChangeConfiguration(cfg) /\ UNCHANGED recencyVars /\ OthersIdle
    \/ \E q \in Queries : Search(q) /\ UNCHANGED recencyVars /\ OthersIdle
    \/ \E k \in 1..MaxTasks :
           SearchAfterIndex(k) /\ UNCHANGED recencyVars /\ OthersIdle
    \/ \E k \in 1..MaxTasks :
           SearchAfterText(k) /\ UNCHANGED recencyVars /\ OthersIdle
    \/ \E uri \in {WorkspaceFiles[i] : i \in 1..Len(WorkspaceFiles)} :
           SaveDocument(uri) /\ OthersIdle
    \/ CloseDocument /\ OthersIdle
    \/ IndexUpdateTimerFires /\ OthersIdle
    \/ /\ ActivityTimerFires(1)
       /\ UNCHANGED <<serviceVars, textVars, heapVars>>
       /\ OthersIdle
    \/ \E g \in Gens : \E uri \in 1..Len(WorkspaceFiles) :
           DocumentSymbolsArrive(g, uri) /\ OthersIdle
    \/ \E g \in Gens : \E uri \in 1..Len(WorkspaceFiles) :
           DocumentSymbolsFail(g, uri) /\ OthersIdle
    \/ \E g \in Gens : \E n \in IndexedNames : ListenerRefresh(g, n) /\ OthersIdle
    \/ \E g \in Gens : \E n \in IndexedNames : ProviderResolves(g, n) /\ OthersIdle
    \/ \E g \in Gens : \E n \in IndexedNames : ProviderRejects(g, n) /\ OthersIdle
    \/ \E k \in 1..MaxTasks : CommandsResolve(k) /\ OthersIdle
    \/ \E k \in 1..MaxTasks : CommandsReject(k) /\ OthersIdle
    \/ \E c \in 1..MaxTextCalls :
           FindFilesReturns(c) /\ UNCHANGED <<serviceVars, recencyVars>> /\ OthersIdle
    \/ \E c \in 1..MaxTextCalls :
           OpenReturns(c) /\ UNCHANGED <<serviceVars, recencyVars>> /\ OthersIdle
    \/ \E c \in 1..MaxTextCalls : TextCallThrows(c) /\ OthersIdle

Init ==
    InitBoostIdle /\ InitRecency /\ InitSortIdle /\ InitHeap /\ InitText
    /\ InitService /\ InitProvidersIdle /\ InitDebouncer /\ InitExclusionIdle
    /\ InitScanIdle /\ InitFuzzyIdle /\ InitPriorityIdle /\ InitUi

Spec == Init /\ [][Next]_vars

\* The File provider's enumeration alone: refreshes are requested, the host's
\* findFiles settles and the user edits the exclusions, in any order.
NextExclusion ==
    /\ \/ FileRefresh
       \/ FileFindFilesReturns
       \/ FileFindFilesThrows
       \/ \E user \in UserExclusions : ChangeExclusions(user)
    /\ UNCHANGED <<boostVars, recencyVars, sortVars, heapVars, textVars,
                   serviceVars, providerVars, debouncerVars, scanVars, fuzzyVars,
                   priorityVars,
                   uiVars>>

ExclusionSpecInit ==
    InitBoostIdle /\ InitRecency /\ InitSortIdle /\ InitHeap /\ InitText
    /\ InitServiceIdle /\ InitProvidersIdle /\ InitDebouncer /\ InitExclusion
    /\ InitScanIdle /\ InitFuzzyIdle /\ InitPriorityIdle /\ InitUi

SpecExclusion == ExclusionSpecInit /\ [][NextExclusion]_vars

\* DocumentSymbolProvider.refresh alone, over every list of workspace
\* folders: refresh() is called and the host calls settle, in any order.
NextScan ==
    /\ \/ DocRefresh
       \/ DocFindFilesReturns
       \/ DocFindFilesThrows
       \/ DocBatchProcessed
    /\ UNCHANGED <<boostVars, recencyVars, sortVars, heapVars, textVars,
                   serviceVars, providerVars, debouncerVars, exclusionVars,
                   fuzzyVars,
                   priorityVars,
                   uiVars>>

ScanSpecInit ==
    InitBoostIdle /\ InitRecency /\ InitSortIdle /\ InitHeap /\ InitText
    /\ InitServiceIdle /\ InitProvidersIdle /\ InitDebouncer /\ InitExclusionIdle
    /\ InitScan /\ InitFuzzyIdle /\ InitPriorityIdle /\ InitUi

SpecScan == ScanSpecInit /\ [][NextScan]_vars

\* A fuzzy adapter alone, on every list of item objects: search is called
\* with any query and limit.
NextFuzzy ==
    /\ \E query \in FuzzyQueries, limit \in 0..MaxFuzzyLimit :
           FuzzySearchCall(query, limit)
    /\ UNCHANGED <<boostVars, recencyVars, sortVars, textVars, serviceVars,
                   providerVars, debouncerVars, exclusionVars, scanVars,
                   priorityVars,
                   uiVars>>

FuzzySpecInit ==
    InitBoostIdle /\ InitRecency /\ InitSortIdle /\ InitHeap /\ InitText
    /\ InitServiceIdle /\ InitProvidersIdle /\ InitDebouncer /\ InitExclusionIdle
    /\ InitScanIdle /\ InitFuzzy /\ InitPriorityIdle /\ InitUi

SpecFuzzy == FuzzySpecInit /\ [][NextFuzzy]_vars

\* The conversions of one symbol of each kind, and of a text match, in any
\* order.
NextPriority ==
    /\ \/ ConvertWorkspaceSymbol
       \/ ProcessDocumentSymbol
       \/ ProcessTextResult
    /\ UNCHANGED <<boostVars, recencyVars, sortVars, heapVars, textVars,
                   serviceVars, providerVars, debouncerVars, exclusionVars,
                   scanVars, fuzzyVars, uiVars>>

PrioritySpecInit ==
    InitBoostIdle /\ InitRecency /\ InitSortIdle /\ InitHeap /\ InitText
    /\ InitServiceIdle /\ InitProvidersIdle /\ InitDebouncer /\ InitExclusionIdle
    /\ InitScanIdle /\ InitFuzzyIdle /\ InitPriority /\ InitUi

SpecPriority == PrioritySpecInit /\ [][NextPriority]_vars

\* The providers alone, with a host that settles every call it was given:
\* a pending enumeration of a refresh is eventually answered.
SpecProvidersFair ==
    SpecProviders
    /\ \A n \in IndexedNames : WF_vars(RefreshResolves(n) /\ ProvidersIdle)

\* The service while files are created, deleted and renamed in the workspace:
\* the user rebuilds and searches, the File provider's listeners refresh it, and
\* the host settles every call it was given.  No document is saved or closed
\* and the configuration is left alone.
NextWatch ==
    \/ RebuildIndex /\ UNCHANGED recencyVars /\ OthersIdle
    \/ \E q \in Queries : Search(q) /\ UNCHANGED recencyVars /\ OthersIdle
    \/ \E k \in 1..MaxTasks :
           SearchAfterIndex(k) /\ UNCHANGED recencyVars /\ OthersIdle
    \/ \E k \in 1..MaxTasks :
           SearchAfterText(k) /\ UNCHANGED recencyVars /\ OthersIdle
    \/ \E g \in Gens : ListenerRefresh(g, "files") /\ OthersIdle
    \/ \E g \in Gens : \E n \in IndexedNames : ProviderResolves(g, n) /\ OthersIdle
    \/ \E g \in Gens : \E n \in IndexedNames : ProviderRejects(g, n) /\ OthersIdle
    \/ \E k \in 1..MaxTasks : CommandsResolve(k) /\ OthersIdle
    \/ \E k \in 1..MaxTasks : CommandsReject(k) /\ OthersIdle
    \/ \E c \in 1..MaxTextCalls :
           FindFilesReturns(c) /\ UNCHANGED <<serviceVars, recencyVars>> /\ OthersIdle
    \/ \E c \in 1..MaxTextCalls :
           OpenReturns(c) /\ UNCHANGED <<serviceVars, recencyVars>> /\ OthersIdle
    \/ \E c \in 1..MaxTextCalls : TextCallThrows(c) /\ OthersIdle

\* A search resumes once what it awaited has settled, and the text search
\* goes on once the host has answered it.
WatchProgress ==
    \/ \E k \in 1..MaxTasks :
           SearchAfterIndex(k) /\ UNCHANGED recencyVars /\ OthersIdle
    \/ \E k \in 1..MaxTasks :
           SearchAfterText(k) /\ UNCHANGED recencyVars /\ OthersIdle
    \/ \E c \in 1..MaxTextCalls :
           FindFilesReturns(c) /\ UNCHANGED <<serviceVars, recencyVars>> /\ OthersIdle
    \/ \E c \in 1..MaxTextCalls :
           OpenReturns(c) /\ UNCHANGED <<serviceVars, recencyVars>> /\ OthersIdle

\* The host settles every refresh and every command it was given: no provider
\* stays refreshing and no task stays at its await for ever.  These are the
\* weak fairness of ProviderResolves and of CommandsResolve, written with
\* the conditions that enable them.
HostSettles ==
    /\ \A g \in Gens : \A n \in IndexedNames : []<>(~prov[g][n].isRefreshing)
    /\ \A k \in 1..MaxTasks : []<>(tasks[k].pc # "awaitCommands")

SpecWatch == Init /\ [][NextWatch]_vars /\ WF_vars(WatchProgress) /\ HostSettles

\* The service while the user moves between editors and searches: the index
\* of the constructor is built, editor changes are tracked, and searches run
\* one after another on the same item objects.
NextSearches ==
    \/ \E q \in Queries : Search(q) /\ UNCHANGED recencyVars /\ OthersIdle
    \/ \E k \in 1..MaxTasks :
           SearchAfterIndex(k) /\ UNCHANGED recencyVars /\ OthersIdle
    \/ \E k \in 1..MaxTasks :
           SearchAfterText(k) /\ UNCHANGED recencyVars /\ OthersIdle
    \/ \E uri \in {WorkspaceFiles[i] : i \in 1..Len(WorkspaceFiles)} :
           /\ ChangeActiveEditor(uri)
           /\ UNCHANGED <<serviceVars, textVars, heapVars>>
           /\ OthersIdle
    \/ /\ ActivityTimerFires(1)
       /\ UNCHANGED <<serviceVars, textVars, heapVars>>
       /\ OthersIdle
    \/ \E g \in Gens : \E n \in IndexedNames : ProviderResolves(g, n) /\ OthersIdle
    \/ \E k \in 1..MaxTasks : CommandsResolve(k) /\ OthersIdle
    \/ \E c \in 1..MaxTextCalls :
           FindFilesReturns(c) /\ UNCHANGED <<serviceVars, recencyVars>> /\ OthersIdle
    \/ \E c \in 1..MaxTextCalls :
           OpenReturns(c) /\ UNCHANGED <<serviceVars, recencyVars>> /\ OthersIdle

SpecSearches == Init /\ [][NextSearches]_vars

\* The dialog alone: it is shown, the user types and clicks the filter
\* buttons, the debounce timer fires and the searches settle, in any order.
NextUi ==
    /\ \/ UiShow
       \/ \E value \in UiQueries : OnDidChangeValue(value)
       \/ SearchDebounceFires
       \/ \E category \in FilterCategories : OnDidTriggerButton(category)
       \/ \E s \in uiSearches : UiSearchResolves(s)
       \/ \E s \in uiSearches : UiSearchRejects(s)
    /\ UNCHANGED <<boostVars, recencyVars, sortVars, heapVars, textVars,
                   serviceVars, providerVars, debouncerVars, exclusionVars,
                   scanVars, fuzzyVars, priorityVars>>

UiSpecInit ==
    InitBoostIdle /\ InitRecency /\ InitSortIdle /\ InitHeap /\ InitText
    /\ InitServiceIdle /\ InitProvidersIdle /\ InitDebouncer /\ InitExclusionIdle
    /\ InitScanIdle /\ InitFuzzyIdle /\ InitPriorityIdle /\ InitUi

SpecUi == UiSpecInit /\ [][NextUi]_vars

====
